---- MODULE Spec2Model ----
(***************************************************************************)
(* HermesDock: the section extractor, splitter, builder and validator of   *)
(* pythonScripts/split.py and pythonScripts/build.py.                      *)
(*                                                                         *)
(* Text is modelled character by character: a Python str is a sequence of  *)
(* one-character strings, a list of lines is a sequence of such sequences. *)
(* A fixed literal of the source that no operation ever looks inside (a    *)
(* comment banner, a file extension) is kept as one element.               *)
(***************************************************************************)
EXTENDS Integers, Sequences, FiniteSets, TLC

VARIABLES
    configs,    \* pythonScripts/data/<name>.yaml: config name -> loaded configuration
    maps,       \* modules/<name>_map.yaml: config name -> loaded module map
    modules,    \* modules/*.md: file name -> file content
    dist,       \* dist/*: file name -> file content
    now,        \* the wall clock, in seconds
    built,      \* what the last build on the present disk state reported, <<>> if none
    validated,  \* what the last validate on the present disk state returned, <<>> if none
    lastSplit,  \* what the last split did, <<>> once the disk was changed otherwise
    commands,   \* how many commands the operator has issued
    cli,        \* how the last command line ended, <<>> before the first
    pandoc,     \* the converter runs so far: the command lines and how each ended
    splitters,  \* the splits in progress: process -> its position and what it holds
    exLines,    \* extract_section: the argument `lines`
    exStart,    \* extract_section: the argument `start_pattern`
    exEnd,      \* extract_section: the argument `end_pattern`
    exResult    \* extract_section: the returned string, Pending before the call

diskVars == <<configs, maps, modules, dist>>

runVars == <<now, built, validated, lastSplit>>

exVars == <<exLines, exStart, exEnd, exResult>>

procVars == <<pandoc, splitters>>

vars == <<configs, maps, modules, dist, now, built, validated, lastSplit, commands, cli,
          pandoc, splitters, exLines, exStart, exEnd, exResult>>

-----------------------------------------------------------------------------
(* Bounds of the checked instances. *)

MaxLines == 3
MaxOrderLen == 3
MaxClock == 2
MaxCommands == 4

-----------------------------------------------------------------------------
(* Python values. *)

\* Python's None, where a str is expected: a value no character sequence equals.
None == <<"None">>

\* A call that has not returned yet.
Pending == <<"Pending">>

NL == "\n"

\* bool(s) of an optional str: None and '' are falsy.
Truthy(s) == s # None /\ s # <<>>

\* `pat in line` for two str: pat occurs as a contiguous substring.
Contains(pat, line) ==
    \E i \in 0..(Len(line) - Len(pat)) : SubSeq(line, i + 1, i + Len(pat)) = pat

Min(S) == CHOOSE x \in S : \A y \in S : x <= y

\* sep.join(parts) with sep = '\n'.
RECURSIVE JoinLines(_)
JoinLines(parts) ==
    IF parts = <<>> THEN <<>>
    ELSE IF Len(parts) = 1 THEN parts[1]
    ELSE parts[1] \o <<NL>> \o JoinLines(Tail(parts))

\* s.split('\n'): always at least one piece.
RECURSIVE SplitLines(_)
SplitLines(s) ==
    IF \A i \in 1..Len(s) : s[i] # NL THEN <<s>>
    ELSE LET k == Min({i \in 1..Len(s) : s[i] = NL})
         IN  <<SubSeq(s, 1, k - 1)>> \o SplitLines(SubSeq(s, k + 1, Len(s)))

-----------------------------------------------------------------------------
(* split.py: ConfigBasedSplitter.extract_section *)

\* The placeholder returned when no line contains start_pattern.
NotFoundMarker(start_pattern) ==
    <<"<!-- Section not found: ">> \o start_pattern \o <<" -->", NL>>

\* A variant in which the last line containing start_pattern wins.
FindStart_LastMatch(lines, start_pattern) ==
    LET hits == {i \in 1..Len(lines) : Contains(start_pattern, lines[i])}
    IN  IF hits = {} THEN 0 ELSE CHOOSE i \in hits : \A j \in hits : j <= i

\* Index (1-based) of the first line containing start_pattern, 0 if none.
FindStart(lines, start_pattern) ==
    LET hits == {i \in 1..Len(lines) : Contains(start_pattern, lines[i])}
    IN  IF hits = {} THEN 0 ELSE Min(hits)

\* A variant that starts the search for the end at the start line itself.
FindEnd_FromStartLine(lines, start_idx, end_pattern) ==
    IF Truthy(end_pattern)
    THEN LET hits == {i \in start_idx..Len(lines) : Contains(end_pattern, lines[i])}
         IN  IF hits = {} THEN Len(lines) + 1 ELSE Min(hits)
    ELSE Len(lines) + 1

\* A variant whose end index, when nothing matches, is the start line.
FindEnd_NoMatchIsEmpty(lines, start_idx, end_pattern) ==
    IF Truthy(end_pattern)
    THEN LET hits == {i \in (start_idx + 1)..Len(lines) : Contains(end_pattern, lines[i])}
         IN  IF hits = {} THEN start_idx ELSE Min(hits)
    ELSE Len(lines) + 1

\* The exclusive end of the slice, as a 1-based index of the first line left out.
FindEnd(lines, start_idx, end_pattern) ==
    IF Truthy(end_pattern)
    THEN LET hits == {i \in (start_idx + 1)..Len(lines) : Contains(end_pattern, lines[i])}
         IN  IF hits = {} THEN Len(lines) + 1   \* end_idx stays None: lines[start_idx:None]
                          ELSE Min(hits)
    ELSE Len(lines) + 1

\* A variant that ends the extracted text with a newline.
extract_section_NewlineTerminated(lines, start_pattern, end_pattern) ==
    LET start_idx == FindStart(lines, start_pattern)
    IN  IF start_idx = 0 THEN NotFoundMarker(start_pattern)
        ELSE JoinLines(SubSeq(lines, start_idx, FindEnd(lines, start_idx, end_pattern) - 1))
                \o <<NL>>

extract_section(lines, start_pattern, end_pattern) ==
    LET start_idx == FindStart(lines, start_pattern)
    IN  IF start_idx = 0 THEN NotFoundMarker(start_pattern)
        ELSE JoinLines(SubSeq(lines, start_idx, FindEnd(lines, start_idx, end_pattern) - 1))

-----------------------------------------------------------------------------
(* Files. A directory is a function from the names of the files that exist *)
(* to their contents.                                                      *)

NoFiles == [f \in {} |-> <<>>]

\* open(path, 'w') ... write(content): the file is created or truncated.
WriteFile(dir, path, content) ==
    [f \in DOMAIN dir \cup {path} |-> IF f = path THEN content ELSE dir[f]]

\* A variant that opens the file for appending.
AppendFile(dir, path, content) ==
    [f \in DOMAIN dir \cup {path} |->
        IF f = path
        THEN (IF path \in DOMAIN dir THEN dir[path] ELSE <<>>) \o content
        ELSE dir[f]]

RemoveFile(dir, path) == [f \in DOMAIN dir \ {path} |-> dir[f]]

-----------------------------------------------------------------------------
(* build.py: DocumentBuilder *)

\* datetime.now().strftime(...): the clock reading as decimal digits.
Digits == <<"0", "1", "2", "3", "4", "5", "6", "7", "8", "9">>

Timestamp(t) == <<Digits[((t \div 10) % 10) + 1], Digits[(t % 10) + 1]>>

\* load_module_map: the map if modules/<name>_map.yaml exists, else None (<<>>).
load_module_map(config_name) ==
    IF config_name \in DOMAIN maps THEN <<maps[config_name]>> ELSE <<>>

\* A variant with a numeric ordering component in the name.
get_module_filename_Numbered(prefix, module_id) ==
    prefix \o <<"-", "0", "0", "-">> \o module_id \o <<".md">>

get_module_filename(prefix, module_id) ==
    prefix \o <<"-">> \o module_id \o <<".md">>

\* [module['id'] for module in outline]
OutlineIds(outline) == [i \in 1..Len(outline) |-> outline[i].id]

\* A variant that prefers the outline whenever the map's order differs in length.
get_module_order_OutlineWins(outline, module_map) ==
    IF /\ module_map # <<>>
       /\ "module_order" \in DOMAIN module_map[1]
       /\ Len(module_map[1].module_order) = Len(outline)
    THEN module_map[1].module_order
    ELSE OutlineIds(outline)

\* `module_map` is None (<<>>), or <<m>> with m the loaded mapping.
get_module_order(outline, module_map) ==
    IF /\ module_map # <<>>
       /\ DOMAIN module_map[1] # {}
       /\ "module_order" \in DOMAIN module_map[1]
    THEN module_map[1].module_order
    ELSE OutlineIds(outline)

Separator == <<NL, "-", "-", "-", NL, NL>>

Banner == "<!-- This document was automatically generated from modular components -->"

\* The three writes of the header.
Header(title, t) ==
    <<"#", " ">> \o title \o <<NL, NL>>
        \o <<Banner, NL>>
        \o <<"<!-- Generated on: ">> \o Timestamp(t) \o <<" -->", NL, NL>>

\* A variant that leaves out the newline written after each module.
ModuleChunk_NoNewline(index, content) ==
    (IF index > 0 THEN Separator ELSE <<>>) \o content

\* What one iteration writes for a module file that exists; index counts from 0.
ModuleChunk(index, content) ==
    (IF index > 0 THEN Separator ELSE <<>>) \o content \o <<NL>>

\* A variant of the loop that gives up at the first module file that is missing.
RECURSIVE BuildLoop_StopAtMissing(_, _, _)
BuildLoop_StopAtMissing(prefix, module_order, n) ==
    IF n = 0 THEN [written |-> <<>>, modules_found |-> 0, printed |-> <<>>, stopped |-> FALSE]
    ELSE LET before == BuildLoop_StopAtMissing(prefix, module_order, n - 1)
             module_file == get_module_filename(prefix, module_order[n])
         IN  IF before.stopped THEN before
             ELSE IF module_file \in DOMAIN modules
             THEN [written |-> before.written \o ModuleChunk(n - 1, modules[module_file]),
                   modules_found |-> before.modules_found + 1,
                   printed |-> Append(before.printed, <<"Added", module_file>>),
                   stopped |-> FALSE]
             ELSE [before EXCEPT !.stopped = TRUE,
                                 !.printed = Append(before.printed, <<"Missing", module_file>>)]

\* The loop of build_document after its first n iterations: the text written
\* after the header, the counter modules_found and the lines printed.
RECURSIVE BuildLoop(_, _, _)
BuildLoop(prefix, module_order, n) ==
    IF n = 0 THEN [written |-> <<>>, modules_found |-> 0, printed |-> <<>>]
    ELSE LET before == BuildLoop(prefix, module_order, n - 1)
             module_file == get_module_filename(prefix, module_order[n])
         IN  IF module_file \in DOMAIN modules
             THEN [written |-> before.written \o ModuleChunk(n - 1, modules[module_file]),
                   modules_found |-> before.modules_found + 1,
                   printed |-> Append(before.printed, <<"Added", module_file>>)]
             ELSE [before EXCEPT !.printed = Append(before.printed, <<"Missing", module_file>>)]

\* The variant loop run over the whole order.
RunBuildLoop_StopAtMissing(prefix, module_order) ==
    LET r == BuildLoop_StopAtMissing(prefix, module_order, Len(module_order))
    IN  [written |-> r.written, modules_found |-> r.modules_found, printed |-> r.printed]

\* The loop run over the whole order.
RunBuildLoop(prefix, module_order) == BuildLoop(prefix, module_order, Len(module_order))

\* The whole text build_document writes to dist/<filename>.
BuildText(config, module_order, t) ==
    Header(config.title, t) \o RunBuildLoop(config.prefix, module_order).written

\* A variant of the output step that appends to an existing output.
StoreOutput_Append(output_path, text) == AppendFile(dist, output_path, text)

\* with open(output_path, 'w') as output: ...
StoreOutput(output_path, text) == WriteFile(dist, output_path, text)

\* build --doc <name>, the configuration exists.
build_document(config_name) ==
    /\ config_name \in DOMAIN configs
    /\ LET config == configs[config_name]
           module_order == get_module_order(config.document_outline,
                                            load_module_map(config_name))
       IN  /\ dist' = StoreOutput(config.filename,
                                  BuildText(config, module_order, now))
           /\ built' = <<[status |-> "ok",
                          output_path |-> config.filename,
                          overwrote |-> config.filename \in DOMAIN dist,
                          printed |-> RunBuildLoop(config.prefix, module_order).printed,
                          modules_found |-> RunBuildLoop(config.prefix, module_order).modules_found,
                          total |-> Len(module_order)]>>
    /\ UNCHANGED <<configs, maps, modules, now, validated, lastSplit, exVars>>

\* build --doc <name>, load_config raises FileNotFoundError before any write.
build_document_NoConfig(config_name) ==
    /\ config_name \notin DOMAIN configs
    /\ built' = <<[status |-> "FileNotFoundError", output_path |-> <<>>,
                   overwrote |-> FALSE, printed |-> <<>>,
                   modules_found |-> 0, total |-> 0]>>
    /\ UNCHANGED <<configs, maps, modules, dist, now, validated, lastSplit, exVars>>

\* The loop of validate_modules after its first n iterations: the counter
\* `missing` and the lines printed.
RECURSIVE ValidateLoop(_, _, _)
ValidateLoop(prefix, module_order, n) ==
    IF n = 0 THEN [missing |-> 0, printed |-> <<>>]
    ELSE LET before == ValidateLoop(prefix, module_order, n - 1)
             module_file == get_module_filename(prefix, module_order[n])
         IN  IF module_file \in DOMAIN modules
             THEN [before EXCEPT !.printed = Append(before.printed, <<"Present", module_file>>)]
             ELSE [missing |-> before.missing + 1,
                   printed |-> Append(before.printed, <<"Missing", module_file>>)]

\* A variant that checks the outline's ids, whatever the map says.
ValidateOrder_OutlineOnly(config_name) ==
    OutlineIds(configs[config_name].document_outline)

\* The order validate_modules walks.
ValidateOrder(config_name) ==
    get_module_order(configs[config_name].document_outline,
                     load_module_map(config_name))

\* A variant of validation that writes a module map when there is none.
validate_modules_WritesMap(config_name) ==
    /\ config_name \in DOMAIN configs
    /\ LET module_order == ValidateOrder(config_name)
           loop == ValidateLoop(configs[config_name].prefix, module_order, Len(module_order))
       IN  validated' = <<[status |-> "ok",
                           printed |-> loop.printed,
                           result |-> (loop.missing = 0)]>>
    /\ maps' = IF config_name \in DOMAIN maps THEN maps
               ELSE WriteFile(maps, config_name,
                              [module_order |-> OutlineIds(configs[config_name].document_outline)])
    /\ UNCHANGED <<configs, modules, dist, now, built, lastSplit, exVars>>

\* validate --doc <name>, the configuration exists: returns missing == 0.
validate_modules(config_name) ==
    /\ config_name \in DOMAIN configs
    /\ LET module_order == ValidateOrder(config_name)
           loop == ValidateLoop(configs[config_name].prefix, module_order, Len(module_order))
       IN  validated' = <<[status |-> "ok",
                           printed |-> loop.printed,
                           result |-> (loop.missing = 0)]>>
    /\ UNCHANGED <<configs, maps, modules, dist, now, built, lastSplit, exVars>>

\* validate --doc <name>, load_config raises FileNotFoundError.
validate_modules_NoConfig(config_name) ==
    /\ config_name \notin DOMAIN configs
    /\ validated' = <<[status |-> "FileNotFoundError", printed |-> <<>>, result |-> FALSE]>>
    /\ UNCHANGED <<configs, maps, modules, dist, now, built, lastSplit, exVars>>

\* A second passes on the wall clock.
Tick ==
    /\ now < MaxClock
    /\ now' = now + 1
    /\ UNCHANGED <<configs, maps, modules, dist, built, validated, lastSplit, exVars>>

\* The keys build_document, validate_modules and create_module_map read from
\* the loaded configuration with config[...]; a key that is not there raises
\* KeyError.
BuildKeys == {"prefix", "filename", "title", "document_outline"}

ValidateKeys == {"prefix", "document_outline"}

CreateMapKeys == {"document_outline", "prefix"}

HasKeys(config, keys) == keys \subseteq DOMAIN config

\* build --doc <name>, config[...] raises KeyError before the output is opened.
build_document_KeyError(config_name) ==
    /\ config_name \in DOMAIN configs
    /\ ~HasKeys(configs[config_name], BuildKeys)
    /\ built' = <<[status |-> "KeyError", output_path |-> <<>>,
                   overwrote |-> FALSE, printed |-> <<>>,
                   modules_found |-> 0, total |-> 0]>>
    /\ UNCHANGED <<configs, maps, modules, dist, now, validated, lastSplit, exVars>>

\* validate --doc <name>, config[...] raises KeyError.
validate_modules_KeyError(config_name) ==
    /\ config_name \in DOMAIN configs
    /\ ~HasKeys(configs[config_name], ValidateKeys)
    /\ validated' = <<[status |-> "KeyError", printed |-> <<>>, result |-> FALSE]>>
    /\ UNCHANGED <<configs, maps, modules, dist, now, built, lastSplit, exVars>>

\* The map create_module_map builds: the outline's order and one entry per id,
\* without an index.
CreatedMap(config_name, config) ==
    LET outline == config.document_outline
        ids == {outline[i].id : i \in 1..Len(outline)}
        last(id) == CHOOSE i \in 1..Len(outline) :
                        /\ outline[i].id = id
                        /\ \A j \in (i + 1)..Len(outline) : outline[j].id # id
    IN  [document_name |-> config_name,
         prefix |-> config.prefix,
         module_order |-> OutlineIds(outline),
         modules |-> [id \in ids |->
                         [heading |-> outline[last(id)].heading,
                          description |-> <<>>,
                          start_pattern |-> outline[last(id)].start_pattern,
                          end_pattern |-> outline[last(id)].end_pattern]]]

\* create-map --doc <name>, the configuration exists and has the keys.
create_module_map(config_name) ==
    /\ config_name \in DOMAIN configs
    /\ HasKeys(configs[config_name], CreateMapKeys)
    /\ maps' = WriteFile(maps, config_name, CreatedMap(config_name, configs[config_name]))
    /\ built' = <<>> /\ validated' = <<>> /\ lastSplit' = <<>>
    /\ UNCHANGED <<configs, modules, dist, now, exVars>>

\* create-map --doc <name>, load_config raises FileNotFoundError or config[...]
\* raises KeyError: nothing has been written.
create_module_map_Raises(config_name) ==
    /\ IF config_name \in DOMAIN configs
       THEN ~HasKeys(configs[config_name], CreateMapKeys)
       ELSE TRUE
    /\ UNCHANGED <<configs, maps, modules, dist, now, built, validated, lastSplit, exVars>>

\* The orders in which glob("*.yaml") may list the configurations.
GlobOrders ==
    {order \in [1..Cardinality(DOMAIN configs) -> DOMAIN configs] :
        \A i, j \in 1..Cardinality(DOMAIN configs) : order[i] = order[j] => i = j}

\* build_all after the first n configurations: dist/ and what was reported for
\* each. An exception of build_document is caught and printed.
RECURSIVE BuildAllLoop(_, _)
BuildAllLoop(order, n) ==
    IF n = 0 THEN [dist |-> dist, processed |-> <<>>]
    ELSE LET before == BuildAllLoop(order, n - 1)
             config_name == order[n]
             config == configs[config_name]
         IN  IF HasKeys(config, BuildKeys)
             THEN [dist |-> WriteFile(before.dist, config.filename,
                                      BuildText(config,
                                                get_module_order(config.document_outline,
                                                                 load_module_map(config_name)),
                                                now)),
                   processed |-> Append(before.processed, <<config_name, "built">>)]
             ELSE [dist |-> before.dist,
                   processed |-> Append(before.processed, <<config_name, "error">>)]

\* The loop of main's validate branch without --doc after the first n
\* configurations; an exception of validate_modules ends the loop and main.
RECURSIVE ValidateAllLoop(_, _)
ValidateAllLoop(order, n) ==
    IF n = 0 THEN [processed |-> <<>>, raised |-> FALSE, all_valid |-> TRUE]
    ELSE LET before == ValidateAllLoop(order, n - 1)
             config_name == order[n]
             config == configs[config_name]
         IN  IF before.raised THEN before
             ELSE IF ~HasKeys(config, ValidateKeys)
             THEN [before EXCEPT !.raised = TRUE,
                                 !.processed = Append(@, <<config_name, "KeyError">>)]
             ELSE LET module_order == ValidateOrder(config_name)
                      loop == ValidateLoop(config.prefix, module_order, Len(module_order))
                  IN  [processed |-> Append(before.processed,
                                            <<config_name, IF loop.missing = 0 THEN "complete"
                                                           ELSE "missing">>),
                       raised |-> FALSE,
                       all_valid |-> before.all_valid /\ loop.missing = 0]

\* The end of a command line that worked on at most one document: `doc` is
\* <<>> without --doc, else <<name>>; `error` names the exception that left
\* main uncaught, "usage" stands for main's own sys.exit(1), "" for a return.
\* No command of build.py prints the available configurations with a failure.
Exits(action, doc, status, error) ==
    cli' = <<[action |-> action, doc |-> doc, exit_status |-> status, error |-> error,
              available_printed |-> FALSE, order |-> <<>>, processed |-> <<>>]>>

\* The end of a command line that worked through the configurations in `order`.
BatchExits(action, status, error, order, processed) ==
    cli' = <<[action |-> action, doc |-> <<>>, exit_status |-> status, error |-> error,
              available_printed |-> FALSE, order |-> order, processed |-> processed]>>

\* build-all
build_all ==
    /\ configs # NoFiles
    /\ \E order \in GlobOrders :
          LET loop == BuildAllLoop(order, Len(order))
          IN  /\ dist' = loop.dist
              /\ BatchExits("build-all", 0, "", order, loop.processed)
    /\ built' = <<>>
    /\ UNCHANGED <<configs, maps, modules, now, validated, lastSplit, exVars>>

\* build-all, no configuration: two lines are printed and main returns.
build_all_Empty ==
    /\ configs = NoFiles
    /\ BatchExits("build-all", 0, "", <<>>, <<>>)
    /\ UNCHANGED <<diskVars, runVars, exVars>>

\* validate (no --doc)
validate_all ==
    /\ configs # NoFiles
    /\ \E order \in GlobOrders :
          LET loop == ValidateAllLoop(order, Len(order))
          IN  BatchExits("validate", IF loop.raised THEN 1 ELSE 0,
                         IF loop.raised THEN "KeyError" ELSE "", order, loop.processed)
    /\ validated' = <<>>
    /\ UNCHANGED <<diskVars, now, built, lastSplit, exVars>>

\* validate (no --doc), no configuration: sys.exit(1).
validate_all_Empty ==
    /\ configs = NoFiles
    /\ BatchExits("validate", 1, "usage", <<>>, <<>>)
    /\ UNCHANGED <<diskVars, runVars, exVars>>

\* build or create-map without --doc: an error line and sys.exit(1).
RequiresDoc(action) ==
    /\ Exits(action, <<>>, 1, "usage")
    /\ UNCHANGED <<diskVars, runVars, exVars>>

-----------------------------------------------------------------------------
(* Characters, as the regular expressions and str methods of split.py see  *)
(* them.                                                                   *)

\* \s
Whitespace == {" ", "\t"}

UpperLetters == <<"A", "B", "C", "D", "E", "F", "G", "H", "I", "J", "K", "L", "M",
                  "N", "O", "P", "Q", "R", "S", "T", "U", "V", "W", "X", "Y", "Z">>

LowerLetters == <<"a", "b", "c", "d", "e", "f", "g", "h", "i", "j", "k", "l", "m",
                  "n", "o", "p", "q", "r", "s", "t", "u", "v", "w", "x", "y", "z">>

IsUpper(c) == \E k \in 1..Len(UpperLetters) : UpperLetters[k] = c

IsLower(c) == \E k \in 1..Len(LowerLetters) : LowerLetters[k] = c

IsDigit(c) == \E k \in 1..Len(Digits) : Digits[k] = c

LowerChar(c) ==
    IF IsUpper(c) THEN LowerLetters[CHOOSE k \in 1..Len(UpperLetters) : UpperLetters[k] = c]
    ELSE c

UpperChar(c) ==
    IF IsLower(c) THEN UpperLetters[CHOOSE k \in 1..Len(LowerLetters) : LowerLetters[k] = c]
    ELSE c

\* str.lower(), str.upper()
Lower(str) == [i \in 1..Len(str) |-> LowerChar(str[i])]

Upper(str) == [i \in 1..Len(str) |-> UpperChar(str[i])]

\* str.title(): a letter is upper-cased after a non-letter, lower-cased after a letter.
TitleCase(str) ==
    [i \in 1..Len(str) |->
        IF i > 1 /\ (IsUpper(str[i - 1]) \/ IsLower(str[i - 1]))
        THEN LowerChar(str[i]) ELSE UpperChar(str[i])]

\* str.replace(' ', '_')
SpacesToUnderscores(str) == [i \in 1..Len(str) |-> IF str[i] = " " THEN "_" ELSE str[i]]

\* str.strip()
RECURSIVE Strip(_)
Strip(str) ==
    IF str = <<>> THEN <<>>
    ELSE IF str[1] \in Whitespace THEN Strip(Tail(str))
    ELSE IF str[Len(str)] \in Whitespace THEN Strip(SubSeq(str, 1, Len(str) - 1))
    ELSE str

\* re.sub(r'[^a-zA-Z0-9\s]', '', str)
RECURSIVE DropSpecials(_)
DropSpecials(str) ==
    IF str = <<>> THEN <<>>
    ELSE IF IsUpper(str[1]) \/ IsLower(str[1]) \/ IsDigit(str[1]) \/ str[1] \in Whitespace
         THEN <<str[1]>> \o DropSpecials(Tail(str))
         ELSE DropSpecials(Tail(str))

\* re.sub(r'\s+', '_', str)
RECURSIVE WhitespaceRunsToUnderscore(_)
WhitespaceRunsToUnderscore(str) ==
    IF str = <<>> THEN <<>>
    ELSE IF str[1] \in Whitespace
         THEN IF Len(str) > 1 /\ str[2] \in Whitespace
              THEN WhitespaceRunsToUnderscore(Tail(str))
              ELSE <<"_">> \o WhitespaceRunsToUnderscore(Tail(str))
         ELSE <<str[1]>> \o WhitespaceRunsToUnderscore(Tail(str))

\* str.startswith(prefix)
StartsWith(str, prefix) ==
    Len(str) >= Len(prefix) /\ SubSeq(str, 1, Len(prefix)) = prefix

Hashes(n) == [i \in 1..n |-> "#"]

\* re.match(r'^#{n}\s+(.+)$', line) for the literal run of n '#': <<>> when
\* there is no match, else <<group 1>>. \s+ is greedy and gives back one
\* character when nothing is left for (.+).
HeadingMatch(line, n) ==
    IF ~(Len(line) >= n + 1 /\ StartsWith(line, Hashes(n)) /\ line[n + 1] \in Whitespace)
    THEN <<>>
    ELSE LET run == CHOOSE k \in 1..(Len(line) - n) :
                        /\ \A j \in (n + 1)..(n + k) : line[j] \in Whitespace
                        /\ (n + k = Len(line) \/ line[n + k + 1] \notin Whitespace)
         IN  IF n + run < Len(line) THEN <<SubSeq(line, n + run + 1, Len(line))>>
             ELSE IF run >= 2 THEN <<SubSeq(line, Len(line), Len(line))>>
             ELSE <<>>

\* The level (1, 2 or 3) the if/else chain files a line under; 0 for no heading.
HeadingLevel(line) ==
    IF HeadingMatch(line, 1) # <<>> THEN 1
    ELSE IF HeadingMatch(line, 2) # <<>> THEN 2
    ELSE IF HeadingMatch(line, 3) # <<>> THEN 3
    ELSE 0

\* The headings of one level, in document order.
RECURSIVE HeadersOfLevel(_, _)
HeadersOfLevel(lines, n) ==
    IF lines = <<>> THEN <<>>
    ELSE (IF HeadingLevel(lines[1]) = n THEN <<HeadingMatch(lines[1], n)[1]>> ELSE <<>>)
            \o HeadersOfLevel(Tail(lines), n)

InSeq(x, seq) == \E i \in 1..Len(seq) : seq[i] = x

-----------------------------------------------------------------------------
(* split.py: ConfigBasedSplitter. An input file is [stem, content]: the    *)
(* stem of its path and its text.                                          *)

\* A variant that rejects a start_pattern without a heading marker.
SectionPlausible_RequiresMarker(section, lines) ==
    LET pattern == section.start_pattern
    IN  IF StartsWith(pattern, <<"#", " ">>)
        THEN InSeq(SubSeq(pattern, 3, Len(pattern)), HeadersOfLevel(lines, 1))
        ELSE IF StartsWith(pattern, <<"#", "#", " ">>)
        THEN InSeq(SubSeq(pattern, 4, Len(pattern)), HeadersOfLevel(lines, 2))
        ELSE IF StartsWith(pattern, <<"#", "#", "#", " ">>)
        THEN InSeq(SubSeq(pattern, 5, Len(pattern)), HeadersOfLevel(lines, 3))
        ELSE FALSE

\* One section passes the check of validate_config_against_document.
SectionPlausible(section, lines) ==
    LET pattern == section.start_pattern
    IN  IF StartsWith(pattern, <<"#", " ">>)
        THEN InSeq(SubSeq(pattern, 3, Len(pattern)), HeadersOfLevel(lines, 1))
        ELSE IF StartsWith(pattern, <<"#", "#", " ">>)
        THEN InSeq(SubSeq(pattern, 4, Len(pattern)), HeadersOfLevel(lines, 2))
        ELSE IF StartsWith(pattern, <<"#", "#", "#", " ">>)
        THEN InSeq(SubSeq(pattern, 5, Len(pattern)), HeadersOfLevel(lines, 3))
        ELSE TRUE

\* A variant that checks the first section of the outline only.
validate_config_against_document_FirstOnly(config, input_file) ==
    LET lines == SplitLines(input_file.content)
    IN  \A i \in 1..Len(config.document_outline) :
            i = 1 => SectionPlausible(config.document_outline[i], lines)

validate_config_against_document(config, input_file) ==
    LET lines == SplitLines(input_file.content)
    IN  \A i \in 1..Len(config.document_outline) :
            SectionPlausible(config.document_outline[i], lines)

\* The configuration built when input_file is None.
BasicConfig(config_name) ==
    [filename |-> TitleCase(config_name) \o <<"_Document.md">>,
     prefix |-> Upper(config_name),
     title |-> TitleCase(config_name) \o <<" ", "D", "o", "c", "u", "m", "e", "n", "t">>,
     document_outline |->
        << [id |-> <<"o", "v", "e", "r", "v", "i", "e", "w">>,
            heading |-> <<"O", "v", "e", "r", "v", "i", "e", "w">>,
            start_pattern |-> <<"#", "#", " ", "O", "v", "e", "r", "v", "i", "e", "w">>,
            end_pattern |-> <<"#", "#", " ", "N", "e", "x", "t", " ",
                              "S", "e", "c", "t", "i", "o", "n">>],
           [id |-> <<"c", "o", "n", "t", "e", "n", "t">>,
            heading |-> <<"M", "a", "i", "n", " ", "C", "o", "n", "t", "e", "n", "t">>,
            start_pattern |-> <<"#", "#", " ", "N", "e", "x", "t", " ",
                                "S", "e", "c", "t", "i", "o", "n">>,
            end_pattern |-> None] >>]

\* The clean id of a heading.
CleanId(heading) == WhitespaceRunsToUnderscore(Strip(DropSpecials(Lower(heading))))

\* A variant that takes the level-1 headings as soon as there is one.
LevelToUse_AnyLevel1(lines) ==
    IF Len(HeadersOfLevel(lines, 1)) > 0 THEN 1
    ELSE IF Len(HeadersOfLevel(lines, 2)) > 1 THEN 2
    ELSE IF Len(HeadersOfLevel(lines, 3)) > 0 THEN 3
    ELSE 0

\* The level whose headings become the sections; 0 when no level is usable.
LevelToUse(lines) ==
    IF Len(HeadersOfLevel(lines, 1)) > 1 THEN 1
    ELSE IF Len(HeadersOfLevel(lines, 2)) > 1 THEN 2
    ELSE IF Len(HeadersOfLevel(lines, 3)) > 0 THEN 3
    ELSE 0

\* A variant whose start patterns carry the section id, not the heading text.
OutlineFromHeaders_IdPatterns(headers_to_use, header_prefix) ==
    [i \in 1..Len(headers_to_use) |->
        [id |-> CleanId(headers_to_use[i]),
         heading |-> headers_to_use[i],
         start_pattern |-> header_prefix \o <<" ">> \o CleanId(headers_to_use[i]),
         end_pattern |-> IF i < Len(headers_to_use)
                         THEN header_prefix \o <<" ">> \o CleanId(headers_to_use[i + 1])
                         ELSE None]]

\* A variant that closes every section, the last one too, with a pattern: the
\* last section's own start_pattern.
OutlineFromHeaders_LastHasEnd(headers_to_use, header_prefix) ==
    [i \in 1..Len(headers_to_use) |->
        [id |-> CleanId(headers_to_use[i]),
         heading |-> headers_to_use[i],
         start_pattern |-> header_prefix \o <<" ">> \o headers_to_use[i],
         end_pattern |-> header_prefix \o <<" ">>
                            \o headers_to_use[IF i < Len(headers_to_use) THEN i + 1 ELSE i]]]

\* The outline built from the headings of the level in use.
OutlineFromHeaders(headers_to_use, header_prefix) ==
    [i \in 1..Len(headers_to_use) |->
        [id |-> CleanId(headers_to_use[i]),
         heading |-> headers_to_use[i],
         start_pattern |-> header_prefix \o <<" ">> \o headers_to_use[i],
         end_pattern |-> IF i < Len(headers_to_use)
                         THEN header_prefix \o <<" ">> \o headers_to_use[i + 1]
                         ELSE None]]

\* create_config_from_document: input_file is <<>> (None) or <<file>>. The
\* configuration returned is also the one saved to data/<name>.yaml.
create_config_from_document(config_name, input_file) ==
    IF input_file = <<>> THEN BasicConfig(config_name)
    ELSE LET lines == SplitLines(input_file[1].content)
             level == LevelToUse(lines)
         IN  IF level = 0 THEN BasicConfig(config_name)
             ELSE [filename |-> SpacesToUnderscores(input_file[1].stem) \o <<".md">>,
                   prefix |-> Upper(config_name),
                   title |-> input_file[1].stem,
                   document_outline |->
                       OutlineFromHeaders(HeadersOfLevel(lines, level), Hashes(level))]

\* load_config decides to create the configuration anew.
MustCreateConfig(config_name, input_file) ==
    \/ config_name \notin DOMAIN configs
    \/ /\ input_file # <<>>
       /\ ~validate_config_against_document(configs[config_name], input_file[1])

\* load_config: the configuration the splitter works with.
load_config(config_name, input_file) ==
    IF MustCreateConfig(config_name, input_file)
    THEN create_config_from_document(config_name, input_file)
    ELSE configs[config_name]

\* The module file written for the section at position i (from 1) of the outline.
ModuleWrite(config, lines, i) ==
    LET section == config.document_outline[i]
    IN  [path |-> config.prefix \o <<"-">> \o section.id \o <<".md">>,
         content |-> extract_section(lines, section.start_pattern, section.end_pattern)]

\* A variant of the loop that skips a section whose start_pattern no line contains.
ModuleWrites_SkipNotFound(config, lines) ==
    LET found == {i \in 1..Len(config.document_outline) :
                     FindStart(lines, config.document_outline[i].start_pattern) # 0}
        pick[i \in 0..Len(config.document_outline)] ==
            IF i = 0 THEN <<>>
            ELSE IF i \in found THEN Append(pick[i - 1], ModuleWrite(config, lines, i))
            ELSE pick[i - 1]
    IN  pick[Len(config.document_outline)]

\* The module files split_document writes, in the order it writes them.
ModuleWrites(config, lines) ==
    [i \in 1..Len(config.document_outline) |-> ModuleWrite(config, lines, i)]

\* A directory after a sequence of writes.
RECURSIVE ApplyWrites(_, _)
ApplyWrites(dir, writes) ==
    IF writes = <<>> THEN dir
    ELSE ApplyWrites(WriteFile(dir, writes[1].path, writes[1].content), Tail(writes))

\* A variant that patches the map on disk: the entries of ids that are no
\* longer in the outline stay.
SplitMap_Patch(config_name, config) ==
    LET outline == config.document_outline
        ids == {outline[i].id : i \in 1..Len(outline)}
        old == IF config_name \in DOMAIN maps /\ "modules" \in DOMAIN maps[config_name]
               THEN maps[config_name].modules ELSE NoFiles
        last(id) == CHOOSE i \in 1..Len(outline) :
                        /\ outline[i].id = id
                        /\ \A j \in (i + 1)..Len(outline) : outline[j].id # id
    IN  [document_name |-> config_name,
         prefix |-> config.prefix,
         module_order |-> OutlineIds(outline),
         modules |-> [id \in ids \cup DOMAIN old |->
                         IF id \in ids
                         THEN [heading |-> outline[last(id)].heading,
                               description |-> <<>>,
                               start_pattern |-> outline[last(id)].start_pattern,
                               end_pattern |-> outline[last(id)].end_pattern,
                               index |-> last(id) - 1]
                         ELSE old[id]]]

\* The module map split_document builds; an id met twice keeps its last entry.
SplitMap(config_name, config) ==
    LET outline == config.document_outline
        ids == {outline[i].id : i \in 1..Len(outline)}
        last(id) == CHOOSE i \in 1..Len(outline) :
                        /\ outline[i].id = id
                        /\ \A j \in (i + 1)..Len(outline) : outline[j].id # id
    IN  [document_name |-> config_name,
         prefix |-> config.prefix,
         module_order |-> OutlineIds(outline),
         modules |-> [id \in ids |->
                         [heading |-> outline[last(id)].heading,
                          description |-> <<>>,
                          start_pattern |-> outline[last(id)].start_pattern,
                          end_pattern |-> outline[last(id)].end_pattern,
                          index |-> last(id) - 1]]]

\* split <input> --config <name>: the constructor's load_config, then
\* split_document.
Split(config_name, input_file) ==
    LET config == load_config(config_name, <<input_file>>)
        saved == MustCreateConfig(config_name, <<input_file>>)
        lines == SplitLines(input_file.content)
        writes == ModuleWrites(config, lines)
    IN  /\ configs' = IF saved THEN WriteFile(configs, config_name, config) ELSE configs
        /\ modules' = ApplyWrites(modules, writes)
        /\ maps' = WriteFile(maps, config_name, SplitMap(config_name, config))
        /\ lastSplit' = <<[config_name |-> config_name,
                           lines |-> lines,
                           config |-> config,
                           config_existed |-> config_name \in DOMAIN configs,
                           created_config |-> saved,
                           module_writes |-> writes,
                           printed |-> [i \in 1..Len(writes) |-> <<"Created", writes[i].path>>],
                           modules_created |-> Len(config.document_outline)]>>
        /\ built' = <<>> /\ validated' = <<>>
        /\ UNCHANGED <<dist, now, exVars>>

\* split <input> --config <name> --analyze: the constructor loads the
\* configuration, creating or regenerating it as for a split; analyze_document
\* then reads the document and the configuration and prints.
analyze_document(config_name, input_file) ==
    LET config == load_config(config_name, <<input_file>>)
        saved == MustCreateConfig(config_name, <<input_file>>)
    IN  /\ configs' = IF saved THEN WriteFile(configs, config_name, config) ELSE configs
        /\ built' = <<>> /\ validated' = <<>> /\ lastSplit' = <<>>
        /\ UNCHANGED <<maps, modules, dist, now, exVars>>

-----------------------------------------------------------------------------
(* A split as the sequence of its file operations. `splitters` holds, for  *)
(* each split process, where it is: the configuration and the lines it     *)
(* works with, and the position i (from 1) of the next section to write.   *)
(* A file is read or written whole in one step. pc is "save" while an      *)
(* inferred configuration waits to be saved, "saved" or "modules" in the   *)
(* loop (with a configuration it created, or the stored one), "done" after *)
(* the map.                                                                *)

\* The file operation of the loop of split_document: open(module_path, 'w').
StoreModule_Append(path, content) == AppendFile(modules, path, content)

StoreModule(path, content) == WriteFile(modules, path, content)

\* The constructor up to the decision of load_config: the stored
\* configuration is read and checked against the document, or a new one is
\* inferred and waits to be saved.
SplitterStart(p, config_name, input_file) ==
    /\ splitters' =
          [q \in DOMAIN splitters \cup {p} |->
              IF q = p
              THEN [pc |-> IF MustCreateConfig(config_name, <<input_file>>)
                           THEN "save" ELSE "modules",
                    config_name |-> config_name,
                    config |-> load_config(config_name, <<input_file>>),
                    lines |-> SplitLines(input_file.content),
                    config_existed |-> config_name \in DOMAIN configs,
                    i |-> 1]
              ELSE splitters[q]]
    /\ built' = <<>> /\ validated' = <<>> /\ lastSplit' = <<>>
    /\ UNCHANGED <<diskVars, now, exVars>>

\* create_config_from_document saves the configuration it built.
SplitterSaveConfig(p) ==
    /\ p \in DOMAIN splitters
    /\ splitters[p].pc = "save"
    /\ configs' = WriteFile(configs, splitters[p].config_name, splitters[p].config)
    /\ splitters' = [splitters EXCEPT ![p].pc = "saved"]
    /\ UNCHANGED <<maps, modules, dist, runVars, exVars>>

\* One iteration of the loop of split_document.
SplitterWriteModule(p) ==
    /\ p \in DOMAIN splitters
    /\ splitters[p].pc \in {"modules", "saved"}
    /\ splitters[p].i <= Len(splitters[p].config.document_outline)
    /\ LET write == ModuleWrite(splitters[p].config, splitters[p].lines, splitters[p].i)
       IN  modules' = StoreModule(write.path, write.content)
    /\ splitters' = [splitters EXCEPT ![p].i = @ + 1]
    /\ UNCHANGED <<configs, maps, dist, runVars, exVars>>

\* What a split that has written its map reports.
SplitterReport(p, created) ==
    LET config == splitters[p].config
        writes == ModuleWrites(config, splitters[p].lines)
    IN  [config_name |-> splitters[p].config_name,
         lines |-> splitters[p].lines,
         config |-> config,
         config_existed |-> splitters[p].config_existed,
         created_config |-> created,
         module_writes |-> writes,
         printed |-> [i \in 1..Len(writes) |-> <<"Created", writes[i].path>>],
         modules_created |-> Len(config.document_outline)]

\* A variant that writes the map when the last module is still to be written.
SplitterWriteMap_BeforeLast(p) ==
    /\ p \in DOMAIN splitters
    /\ splitters[p].pc \in {"modules", "saved"}
    /\ splitters[p].i >= Len(splitters[p].config.document_outline)
    /\ maps' = WriteFile(maps, splitters[p].config_name,
                         SplitMap(splitters[p].config_name, splitters[p].config))
    /\ lastSplit' = <<SplitterReport(p, splitters[p].pc = "saved")>>
    /\ splitters' = [splitters EXCEPT ![p].pc = "done"]
    /\ UNCHANGED <<configs, modules, dist, now, built, validated, exVars>>

\* The map is written after the loop, and the split is complete.
SplitterWriteMap(p) ==
    /\ p \in DOMAIN splitters
    /\ splitters[p].pc \in {"modules", "saved"}
    /\ splitters[p].i > Len(splitters[p].config.document_outline)
    /\ maps' = WriteFile(maps, splitters[p].config_name,
                         SplitMap(splitters[p].config_name, splitters[p].config))
    /\ lastSplit' = <<SplitterReport(p, splitters[p].pc = "saved")>>
    /\ splitters' = [splitters EXCEPT ![p].pc = "done"]
    /\ UNCHANGED <<configs, modules, dist, now, built, validated, exVars>>

-----------------------------------------------------------------------------
(* The extractor instance: every sequence of up to MaxLines lines drawn    *)
(* from ExLineSet, with every start and end pattern of ExPatSet.           *)

SeqsUpTo(S, n) == UNION {[1..k -> S] : k \in 0..n}

\* '', 'a', 'b', 'ab', 'ba'
ExLineSet == {<<>>, <<"a">>, <<"b">>, <<"a", "b">>, <<"b", "a">>}

ExDocSet == UNION {[1..k -> ExLineSet] : k \in 1..MaxLines}

\* '', 'a', 'b', 'ab'
ExPatSet == {<<>>, <<"a">>, <<"b">>, <<"a", "b">>}

InitExtract ==
    /\ exLines \in ExDocSet
    /\ exStart \in ExPatSet
    /\ exEnd \in ExPatSet \cup {None}
    /\ exResult = Pending
    /\ configs = NoFiles /\ maps = NoFiles /\ modules = NoFiles /\ dist = NoFiles
    /\ now = 0 /\ built = <<>> /\ validated = <<>> /\ lastSplit = <<>> /\ commands = 0
    /\ cli = <<>> /\ pandoc = <<>> /\ splitters = <<>>

ExtractSection ==
    /\ exResult = Pending
    /\ exResult' = extract_section(exLines, exStart, exEnd)
    /\ UNCHANGED <<exLines, exStart, exEnd, diskVars, runVars, commands, cli, procVars>>

NextExtract == ExtractSection

SpecExtract == InitExtract /\ [][NextExtract]_vars

-----------------------------------------------------------------------------
(* The builder instance: build and validate over every on-disk state drawn *)
(* from the sets below (a configuration or none, a module map or none, any *)
(* subset of the module files).                                            *)

DocName == <<"r", "t">>

IdA == <<"a">>
IdB == <<"b">>
IdC == <<"c">>

IdPool == {IdA, IdB, IdC}

LineA == <<"#", "#", " ", "A">>
LineB == <<"#", "#", " ", "B">>
LineC == <<"#", "#", " ", "C">>

\* The section descriptor a configuration holds for an id of the pool.
SectionOf(id) ==
    IF id = IdA THEN [id |-> IdA, heading |-> <<"A">>, start_pattern |-> LineA, end_pattern |-> LineB]
    ELSE IF id = IdB THEN [id |-> IdB, heading |-> <<"B">>, start_pattern |-> LineB, end_pattern |-> None]
    ELSE [id |-> IdC, heading |-> <<"C">>, start_pattern |-> LineC, end_pattern |-> None]

ConfigWith(ids) ==
    [filename |-> <<"T", "i", "t", "l", "e", ".md">>,
     prefix |-> <<"R", "T">>,
     title |-> <<"T", "i", "t", "l", "e">>,
     document_outline |-> [i \in 1..Len(ids) |-> SectionOf(ids[i])]]

\* Outlines over the ids a and b, without repetition.
OutlineIdSet == {<<>>, <<IdA>>, <<IdB>>, <<IdA, IdB>>, <<IdB, IdA>>}

\* Every module_order an operator may have written into a map.
OrderSet == SeqsUpTo(IdPool, MaxOrderLen)

MapWithOrder(order) ==
    [document_name |-> DocName, prefix |-> <<"R", "T">>,
     module_order |-> order, modules |-> NoFiles]

MapWithoutOrder ==
    [document_name |-> DocName, prefix |-> <<"R", "T">>, modules |-> NoFiles]

EmptyMapping == [k \in {} |-> <<>>]

MapSet == {EmptyMapping, MapWithoutOrder} \cup {MapWithOrder(o) : o \in OrderSet}

\* The text of the module file of an id of the pool.
ModuleTextOf(id) ==
    IF id = IdA THEN LineA \o <<NL, "a", "1", NL, "a", "2">>
    ELSE IF id = IdB THEN LineB \o <<NL, "b", "1">>
    ELSE <<"c">>

ModuleDirSet ==
    {[f \in {get_module_filename(<<"R", "T">>, id) : id \in S} |->
        ModuleTextOf(CHOOSE id \in S : get_module_filename(<<"R", "T">>, id) = f)]
     : S \in SUBSET IdPool}

ExIdle ==
    /\ exLines = <<<<>>>> /\ exStart = <<>> /\ exEnd = None /\ exResult = Pending

InitBuild ==
    /\ configs \in {NoFiles} \cup {[n \in {DocName} |-> ConfigWith(ids)] : ids \in OutlineIdSet}
    /\ maps \in {NoFiles} \cup {[n \in {DocName} |-> m] : m \in MapSet}
    /\ modules \in ModuleDirSet
    /\ dist = NoFiles
    /\ now = 0 /\ built = <<>> /\ validated = <<>> /\ lastSplit = <<>> /\ commands = 0
    /\ cli = <<>> /\ pandoc = <<>> /\ splitters = <<>>
    /\ ExIdle

Uncounted == commands' = commands

BuildAgain ==
    /\ Uncounted
    /\ build_document(DocName)
    /\ UNCHANGED cli
    /\ UNCHANGED procVars

BuildAgainNoConfig ==
    /\ Uncounted
    /\ build_document_NoConfig(DocName)
    /\ UNCHANGED cli
    /\ UNCHANGED procVars

ValidateAgain ==
    /\ Uncounted
    /\ validate_modules(DocName)
    /\ UNCHANGED cli
    /\ UNCHANGED procVars

ValidateAgainNoConfig ==
    /\ Uncounted
    /\ validate_modules_NoConfig(DocName)
    /\ UNCHANGED cli
    /\ UNCHANGED procVars

ClockTick ==
    /\ Uncounted
    /\ Tick
    /\ UNCHANGED cli
    /\ UNCHANGED procVars

NextBuild ==
    \/ BuildAgain
    \/ BuildAgainNoConfig
    \/ ValidateAgain
    \/ ValidateAgainNoConfig
    \/ ClockTick

SpecBuild == InitBuild /\ [][NextBuild]_vars

-----------------------------------------------------------------------------
(* The operator's own changes to the files, all of which are plain text.   *)

\* create_configs.py, "Load from external file": the file's configuration is
\* saved under the name.
LoadExternalConfig(config_name, config) ==
    /\ configs' = WriteFile(configs, config_name, config)
    /\ built' = <<>> /\ validated' = <<>> /\ lastSplit' = <<>>
    /\ UNCHANGED <<maps, modules, dist, now, exVars>>

\* The operator rewrites module_order in the module map.
EditMapOrder(config_name, order) ==
    /\ config_name \in DOMAIN maps
    /\ "module_order" \in DOMAIN maps[config_name]
    /\ maps[config_name].module_order # order
    /\ maps' = [maps EXCEPT ![config_name] = [@ EXCEPT !.module_order = order]]
    /\ built' = <<>> /\ validated' = <<>> /\ lastSplit' = <<>>
    /\ UNCHANGED <<configs, modules, dist, now, exVars>>

\* The operator removes a module file.
DeleteModule(path) ==
    /\ path \in DOMAIN modules
    /\ modules' = RemoveFile(modules, path)
    /\ built' = <<>> /\ validated' = <<>> /\ lastSplit' = <<>>
    /\ UNCHANGED <<configs, maps, dist, now, exVars>>

-----------------------------------------------------------------------------
(* new_doc.py: the scaffolding flow. The operator's answers are the title, *)
(* the filename, the prefix and, per section, an id and a heading (no      *)
(* start pattern is typed in).                                             *)

\* The outline built from the sections typed in: <<id, heading>> each.
NewDocOutline(sections) ==
    [i \in 1..Len(sections) |->
        [id |-> sections[i][1],
         heading |-> sections[i][2],
         start_pattern |-> <<"#", "#", " ">> \o sections[i][2],
         end_pattern |-> IF i < Len(sections)
                         THEN <<"#", "#", " ">> \o sections[i + 1][2]
                         ELSE None]]

\* f"{prefix}-{index:02d}-{section['id']}.md", index counted from 0.
NewDocModuleFilename(prefix, index, id) ==
    prefix \o <<"-", Digits[((index \div 10) % 10) + 1], Digits[(index % 10) + 1], "-">>
        \o id \o <<".md">>

NewDocModuleText(section) ==
    <<"#", " ">> \o section.heading \o <<NL, NL>>
        \o <<"<!-- Content for ">> \o section.id \o <<" section -->", NL, NL>>

\* create_module_files after the first n sections: a file that exists is kept.
RECURSIVE create_module_files(_, _)
create_module_files(config, n) ==
    IF n = 0 THEN modules
    ELSE LET before == create_module_files(config, n - 1)
             section == config.document_outline[n]
             module_filename == NewDocModuleFilename(config.prefix, n - 1, section.id)
         IN  IF module_filename \in DOMAIN before THEN before
             ELSE WriteFile(before, module_filename, NewDocModuleText(section))

\* create_document_config: the configuration is saved (over an existing one
\* only when the operator agrees) and the module files are created on request.
create_document_config(config_name, title, filename, prefix, sections, create_modules) ==
    LET config == [filename |-> filename, prefix |-> prefix, title |-> title,
                   document_outline |-> NewDocOutline(sections)]
    IN  /\ configs' = WriteFile(configs, config_name, config)
        /\ modules' = IF create_modules
                      THEN create_module_files(config, Len(config.document_outline))
                      ELSE modules
        /\ built' = <<>> /\ validated' = <<>> /\ lastSplit' = <<>>
        /\ UNCHANGED <<maps, dist, now, exVars>>

\* create_document_config, the configuration exists and the operator does not
\* answer 'y': "Cancelled."
create_document_config_Cancelled(config_name) ==
    /\ config_name \in DOMAIN configs
    /\ UNCHANGED <<diskVars, runVars, exVars>>

-----------------------------------------------------------------------------
(* convert.py: conversion of the built documents with pandoc. A command    *)
(* line is a list of arguments; an argument is a str whose leading dashes  *)
(* are single characters. `pandoc` records the conversions of the last     *)
(* command: the converter runs of each (command line, return code) and the *)
(* value the conversion returned.                                          *)

ReferenceDocx == <<"data/reference.docx">>

DateSuffix == <<"_%Y%m%d">>

\* Path.stem of a name that ends in one suffix.
PathStem(name) == SubSeq(name, 1, Len(name) - 1)

get_output_filename(input_file, format_type) ==
    IF format_type = "docx"
    THEN <<"dist/docx/">> \o PathStem(input_file) \o DateSuffix \o <<".docx">>
    ELSE <<"dist/pdfs/">> \o PathStem(input_file) \o DateSuffix \o <<".pdf">>

\* list.remove(x): the first occurrence is removed.
RemoveFirst(list, x) ==
    LET k == CHOOSE k \in 1..Len(list) :
                 list[k] = x /\ \A j \in 1..(k - 1) : list[j] # x
    IN  SubSeq(list, 1, k - 1) \o SubSeq(list, k + 1, Len(list))

\* list.index(x)
IndexOf(list, x) ==
    CHOOSE k \in 1..Len(list) : list[k] = x /\ \A j \in 1..(k - 1) : list[j] # x

DocxCmd(input_file) ==
    << <<"pandoc">>, input_file,
       <<"-", "o">>, get_output_filename(input_file, "docx"),
       <<"-", "-", "reference-doc">>, ReferenceDocx,
       <<"-", "-", "toc">>,
       <<"-", "-", "toc-depth=3">>,
       <<"-", "V">>, <<"colorlinks=true">>,
       <<"-", "V">>, <<"linkcolor=blue">>,
       <<"-", "V">>, <<"urlcolor=blue">> >>

\* The fallback of convert_to_docx: without the reference document.
DocxRetryCmd(cmd) ==
    RemoveFirst(RemoveFirst(cmd, <<"-", "-", "reference-doc">>), ReferenceDocx)

PdfCmd(input_file) ==
    << <<"pandoc">>, input_file,
       <<"-", "o">>, get_output_filename(input_file, "pdf"),
       <<"-", "-", "pdf-engine=", "xelatex">>,
       <<"-", "-", "toc">>,
       <<"-", "-", "toc-depth=3">>,
       <<"-", "V">>, <<"geometry:margin=1in">>,
       <<"-", "V">>, <<"colorlinks=true">>,
       <<"-", "V">>, <<"linkcolor=blue">>,
       <<"-", "V">>, <<"urlcolor=blue">>,
       <<"-", "V">>, <<"toccolor=black">>,
       <<"-", "V">>, <<"fontsize=11pt">>,
       <<"-", "V">>, <<"mainfont=", "Arial">>,
       <<"-", "-", "highlight-style=tango">> >>

\* The fallback of convert_to_pdf: the simpler engine, and every argument
\* that starts with 'mainfont=' filtered out.
PdfRetryCmd(cmd) ==
    LET engine == [cmd EXCEPT ![IndexOf(cmd, <<"-", "-", "pdf-engine=", "xelatex">>)]
                                 = <<"-", "-", "pdf-engine=", "pdflatex">>]
    IN  SelectSeq(engine, LAMBDA arg : ~StartsWith(arg, <<"mainfont=">>))

\* What pandoc does with a conversion is not the program's to decide.
ConverterOutcomes == {"ok", "retry_ok", "failed"}

\* subprocess.run(cmd, check=True): CalledProcessError on a non-zero return code.
PandocRuns(cmd, retry, outcome) ==
    IF outcome = "ok" THEN << [cmd |-> cmd, returncode |-> 0] >>
    ELSE << [cmd |-> cmd, returncode |-> 1],
            [cmd |-> retry, returncode |-> IF outcome = "retry_ok" THEN 0 ELSE 1] >>

convert_to_docx(input_file, outcome) ==
    [file |-> input_file, format |-> "docx",
     runs |-> PandocRuns(DocxCmd(input_file), DocxRetryCmd(DocxCmd(input_file)), outcome),
     result |-> IF outcome = "failed" THEN None
                ELSE get_output_filename(input_file, "docx")]

convert_to_pdf(input_file, outcome) ==
    [file |-> input_file, format |-> "pdf",
     runs |-> PandocRuns(PdfCmd(input_file), PdfRetryCmd(PdfCmd(input_file)), outcome),
     result |-> IF outcome = "failed" THEN None
                ELSE get_output_filename(input_file, "pdf")]

\* The conversions of one markdown file: docx before pdf.
ConvertFile(md_file, formats, outcomes) ==
    (IF "docx" \in formats THEN <<convert_to_docx(md_file, outcomes[md_file, "docx"])>>
     ELSE <<>>)
    \o (IF "pdf" \in formats THEN <<convert_to_pdf(md_file, outcomes[md_file, "pdf"])>>
        ELSE <<>>)

\* dist_dir.glob("*.md"): the files of dist/ in directory order.
DistOrders ==
    {order \in [1..Cardinality(DOMAIN dist) -> DOMAIN dist] :
        \A i, j \in 1..Cardinality(DOMAIN dist) : order[i] = order[j] => i = j}

RECURSIVE ConvertAllLoop(_, _, _, _)
ConvertAllLoop(order, formats, outcomes, n) ==
    IF n = 0 THEN <<>>
    ELSE ConvertAllLoop(order, formats, outcomes, n - 1)
            \o ConvertFile(order[n], formats, outcomes)

convert_all(formats) ==
    /\ dist # NoFiles
    /\ \E order \in DistOrders,
          outcomes \in [(DOMAIN dist) \X {"docx", "pdf"} -> ConverterOutcomes] :
          /\ pandoc' = ConvertAllLoop(order, formats, outcomes, Len(order))
          /\ BatchExits("convert-all", 0, "", order, <<>>)
    /\ UNCHANGED <<diskVars, runVars, exVars>>

\* convert_all: "No markdown files found in dist/"
convert_all_Empty ==
    /\ dist = NoFiles
    /\ pandoc' = <<>>
    /\ BatchExits("convert-all", 0, "", <<>>, <<>>)
    /\ UNCHANGED <<diskVars, runVars, exVars>>

\* get_filename_for_doc: the configured filename, else a file of dist/ whose
\* name contains the document name, else '{doc_name}.md'.
FilenamesForDoc(doc_name) ==
    IF doc_name \in DOMAIN configs THEN {configs[doc_name].filename}
    ELSE IF \E f \in DOMAIN dist : Contains(Lower(doc_name), Lower(f))
         THEN {f \in DOMAIN dist : Contains(Lower(doc_name), Lower(f))}
         ELSE {doc_name \o <<".md">>}

convert_document(doc_name, formats) ==
    /\ \E md_file \in FilenamesForDoc(doc_name) :
          /\ md_file \in DOMAIN dist
          /\ \E outcomes \in [{md_file} \X {"docx", "pdf"} -> ConverterOutcomes] :
                pandoc' = ConvertFile(md_file, formats, outcomes)
    /\ Exits("convert", doc_name, 0, "")
    /\ UNCHANGED <<diskVars, runVars, exVars>>

\* convert_document: "Error: {md_file} not found"
convert_document_NotFound(doc_name) ==
    /\ \E md_file \in FilenamesForDoc(doc_name) : md_file \notin DOMAIN dist
    /\ pandoc' = <<>>
    /\ Exits("convert", doc_name, 0, "")
    /\ UNCHANGED <<diskVars, runVars, exVars>>

-----------------------------------------------------------------------------
(* The system instance: one configuration name, an empty project to start  *)
(* with, the source documents and external configurations below.           *)

\* "# Title", "## A", "a1", "a2", "## B", "b1"
SrcRoundTrip ==
    [stem |-> <<"T", "i", "t", "l", "e">>,
     content |-> <<"#", " ", "T", "i", "t", "l", "e", NL>> \o LineA \o <<NL, "a", "1", NL, "a", "2", NL>>
                    \o LineB \o <<NL, "b", "1">>]

\* "## A", "a1", "## C", "c1": the document after section B was replaced by C.
SrcEdited ==
    [stem |-> <<"T", "i", "t", "l", "e">>,
     content |-> LineA \o <<NL, "a", "1", NL>> \o LineC \o <<NL, "c", "1">>]

\* "x", "": a document without headings, ending in a newline.
SrcPlain ==
    [stem |-> <<"T", "i", "t", "l", "e">>,
     content |-> <<"x", NL>>]

\* "## A", "x", "## A!": two headings with the same clean id.
SrcTwins ==
    [stem |-> <<"T", "i", "t", "l", "e">>,
     content |-> LineA \o <<NL, "x", NL>> \o LineA \o <<"!">>]

SourceDocs == {SrcRoundTrip, SrcEdited, SrcPlain, SrcTwins}

\* A hand-written configuration: a first section whose start_pattern "zz" is
\* no heading, then the sections A and B.
ConfigZAB ==
    [filename |-> <<"T", "i", "t", "l", "e", ".md">>,
     prefix |-> <<"R", "T">>,
     title |-> <<"T", "i", "t", "l", "e">>,
     document_outline |->
        << [id |-> <<"z">>, heading |-> <<"Z">>, start_pattern |-> <<"z", "z">>, end_pattern |-> None],
           SectionOf(IdA), SectionOf(IdB) >>]

\* A hand-written configuration with one section, the level-1 heading "Title".
ConfigTitle ==
    [filename |-> <<"T", "i", "t", "l", "e", ".md">>,
     prefix |-> <<"R", "T">>,
     title |-> <<"T", "i", "t", "l", "e">>,
     document_outline |->
        << [id |-> <<"t">>, heading |-> <<"T", "i", "t", "l", "e">>,
            start_pattern |-> <<"#", " ", "T", "i", "t", "l", "e">>, end_pattern |-> None] >>]

ExternalConfigs == {ConfigZAB, ConfigTitle}

\* The orders the operator writes into a map by hand.
OperatorOrders == {<<IdB, IdA>>, <<IdA>>}

Init ==
    /\ configs = NoFiles /\ maps = NoFiles /\ modules = NoFiles /\ dist = NoFiles
    /\ now = 0 /\ built = <<>> /\ validated = <<>> /\ lastSplit = <<>> /\ commands = 0
    /\ cli = <<>> /\ pandoc = <<>> /\ splitters = <<>>
    /\ ExIdle

\* One more command of a session of at most MaxCommands commands.
Counted == commands < MaxCommands /\ commands' = commands + 1

SplitCmd ==
    /\ Counted
    /\ \E src \in SourceDocs : Split(DocName, src)
    /\ Exits("split", <<DocName>>, 0, "")
    /\ UNCHANGED procVars

LoadExternalConfigCmd ==
    /\ Counted
    /\ \E config \in ExternalConfigs : LoadExternalConfig(DocName, config)
    /\ Exits("create_configs", <<DocName>>, 0, "")
    /\ UNCHANGED procVars

EditMapOrderCmd ==
    /\ Counted
    /\ \E order \in OperatorOrders : EditMapOrder(DocName, order)
    /\ cli' = <<>>
    /\ UNCHANGED procVars

DeleteModuleCmd ==
    /\ Counted
    /\ \E path \in DOMAIN modules : DeleteModule(path)
    /\ cli' = <<>>
    /\ UNCHANGED procVars

AnalyzeCmd ==
    /\ Counted
    /\ \E src \in SourceDocs : analyze_document(DocName, src)
    /\ Exits("analyze", <<DocName>>, 0, "")
    /\ UNCHANGED procVars

BuildCmd ==
    /\ Counted
    /\ build_document(DocName)
    /\ Exits("build", <<DocName>>, 0, "")
    /\ UNCHANGED procVars

BuildNoConfigCmd ==
    /\ Counted
    /\ build_document_NoConfig(DocName)
    /\ Exits("build", <<DocName>>, 1, "FileNotFoundError")
    /\ UNCHANGED procVars

ValidateCmd ==
    /\ Counted
    /\ validate_modules(DocName)
    /\ Exits("validate", <<DocName>>, 0, "")
    /\ UNCHANGED procVars

ValidateNoConfigCmd ==
    /\ Counted
    /\ validate_modules_NoConfig(DocName)
    /\ Exits("validate", <<DocName>>, 1, "FileNotFoundError")
    /\ UNCHANGED procVars

Next ==
    \/ SplitCmd
    \/ AnalyzeCmd
    \/ LoadExternalConfigCmd
    \/ EditMapOrderCmd
    \/ DeleteModuleCmd
    \/ BuildCmd
    \/ BuildNoConfigCmd
    \/ ValidateCmd
    \/ ValidateNoConfigCmd

Spec == Init /\ [][Next]_vars

-----------------------------------------------------------------------------
(* The inference instance: an empty project and one split of a document of *)
(* up to MaxLines lines drawn from InferLineSet, so that the configuration *)
(* is inferred from the document.                                          *)

\* "# A", "# a", "## B", "## b c", "### !", "### C", "#### C", "x", "", "#  A"
InferLineSet ==
    { <<"#", " ", "A">>, <<"#", " ", "a">>,
      <<"#", "#", " ", "B">>, <<"#", "#", " ", "b", " ", "c">>,
      <<"#", "#", "#", " ", "!">>, <<"#", "#", "#", " ", "C">>,
      <<"#", "#", "#", "#", " ", "C">>, <<"x">>, <<>>,
      <<"#", " ", " ", "A">> }

\* The text of a file with the given lines.
RECURSIVE TextOf(_)
TextOf(lines) ==
    IF Len(lines) = 1 THEN lines[1]
    ELSE lines[1] \o <<NL>> \o TextOf(Tail(lines))

InferDocs ==
    {[stem |-> <<"T", "i", "t", "l", "e">>, content |-> TextOf(lines)] :
        lines \in UNION {[1..k -> InferLineSet] : k \in 1..MaxLines}}

InferSplit ==
    /\ lastSplit = <<>>
    /\ Uncounted
    /\ \E src \in InferDocs : Split(DocName, src)
    /\ Exits("split", <<DocName>>, 0, "")
    /\ UNCHANGED procVars

NextInfer == InferSplit

SpecInfer == Init /\ [][NextInfer]_vars

-----------------------------------------------------------------------------
(* The command-line instance: build.py run over a project with up to two   *)
(* configurations, each complete or lacking a key, and any of their module *)
(* files.                                                                  *)

OtherName == <<"z", "z">>

CliNames == {DocName, OtherName}

OtherConfig ==
    [filename |-> <<"O", "t", "h", "e", "r", ".md">>,
     prefix |-> <<"Z", "Z">>,
     title |-> <<"O", "t", "h", "e", "r">>,
     document_outline |-> <<SectionOf(IdC)>>]

\* A configuration file that lacks a key.
Without(config, key) == [k \in DOMAIN config \ {key} |-> config[k]]

CliConfigsOf(name) ==
    IF name = DocName
    THEN {ConfigWith(<<IdA, IdB>>), Without(ConfigWith(<<IdA, IdB>>), "prefix"),
          Without(ConfigWith(<<IdA, IdB>>), "title")}
    ELSE {OtherConfig, Without(OtherConfig, "prefix")}

CliConfigDirs ==
    UNION {{dir \in [S -> UNION {CliConfigsOf(name) : name \in S}] :
               \A name \in S : dir[name] \in CliConfigsOf(name)}
           : S \in SUBSET CliNames}

CliModuleDirs ==
    {[f \in S |-> <<"t", "e", "x", "t">>] :
        S \in SUBSET {get_module_filename(<<"R", "T">>, IdA),
                      get_module_filename(<<"R", "T">>, IdB),
                      get_module_filename(<<"Z", "Z">>, IdC)}}

InitCli ==
    /\ configs \in CliConfigDirs
    /\ maps = NoFiles
    /\ modules \in CliModuleDirs
    /\ dist = NoFiles
    /\ now = 0 /\ built = <<>> /\ validated = <<>> /\ lastSplit = <<>> /\ commands = 0
    /\ cli = <<>> /\ pandoc = <<>> /\ splitters = <<>>
    /\ ExIdle

CliBuild ==
    /\ Counted
    /\ \E name \in CliNames :
          /\ name \in DOMAIN configs
          /\ HasKeys(configs[name], BuildKeys)
          /\ build_document(name)
          /\ Exits("build", <<name>>, 0, "")
    /\ UNCHANGED procVars

CliBuildNoConfig ==
    /\ Counted
    /\ \E name \in CliNames :
          /\ build_document_NoConfig(name)
          /\ Exits("build", <<name>>, 1, "FileNotFoundError")
    /\ UNCHANGED procVars

CliBuildKeyError ==
    /\ Counted
    /\ \E name \in CliNames :
          /\ build_document_KeyError(name)
          /\ Exits("build", <<name>>, 1, "KeyError")
    /\ UNCHANGED procVars

CliBuildNoDoc ==
    /\ Counted
    /\ RequiresDoc("build")
    /\ UNCHANGED procVars

CliBuildAll ==
    /\ Counted
    /\ build_all
    /\ UNCHANGED procVars

CliBuildAllEmpty ==
    /\ Counted
    /\ build_all_Empty
    /\ UNCHANGED procVars

CliValidate ==
    /\ Counted
    /\ \E name \in CliNames :
          /\ name \in DOMAIN configs
          /\ HasKeys(configs[name], ValidateKeys)
          /\ validate_modules(name)
          /\ Exits("validate", <<name>>, 0, "")
    /\ UNCHANGED procVars

CliValidateNoConfig ==
    /\ Counted
    /\ \E name \in CliNames :
          /\ validate_modules_NoConfig(name)
          /\ Exits("validate", <<name>>, 1, "FileNotFoundError")
    /\ UNCHANGED procVars

CliValidateKeyError ==
    /\ Counted
    /\ \E name \in CliNames :
          /\ validate_modules_KeyError(name)
          /\ Exits("validate", <<name>>, 1, "KeyError")
    /\ UNCHANGED procVars

CliValidateAll ==
    /\ Counted
    /\ validate_all
    /\ UNCHANGED procVars

CliValidateAllEmpty ==
    /\ Counted
    /\ validate_all_Empty
    /\ UNCHANGED procVars

CliCreateMap ==
    /\ Counted
    /\ \E name \in CliNames :
          /\ create_module_map(name)
          /\ Exits("create-map", <<name>>, 0, "")
    /\ UNCHANGED procVars

CliCreateMapRaises ==
    /\ Counted
    /\ \E name \in CliNames :
          /\ create_module_map_Raises(name)
          /\ Exits("create-map", <<name>>, 1,
                   IF name \in DOMAIN configs THEN "KeyError" ELSE "FileNotFoundError")
    /\ UNCHANGED procVars

CliCreateMapNoDoc ==
    /\ Counted
    /\ RequiresDoc("create-map")
    /\ UNCHANGED procVars

NextCli ==
    \/ CliBuild
    \/ CliBuildNoConfig
    \/ CliBuildKeyError
    \/ CliBuildNoDoc
    \/ CliBuildAll
    \/ CliBuildAllEmpty
    \/ CliValidate
    \/ CliValidateNoConfig
    \/ CliValidateKeyError
    \/ CliValidateAll
    \/ CliValidateAllEmpty
    \/ CliCreateMap
    \/ CliCreateMapRaises
    \/ CliCreateMapNoDoc

SpecCli == InitCli /\ [][NextCli]_vars

-----------------------------------------------------------------------------
(* The scaffolding instance: an empty project, configurations created with *)
(* new_doc.py, then validated and built.                                    *)

\* The sections an operator types in: <<id, heading>>.
NewDocSections ==
    {<<>>, << <<IdA, <<"A">>>> >>, << <<IdA, <<"A">>>>, <<IdB, <<"B">>>> >>,
     << <<IdB, <<"B">>>>, <<IdA, <<"A">>>> >>}

NewDocCmd ==
    /\ Counted
    /\ \E sections \in NewDocSections, create_modules \in BOOLEAN :
          create_document_config(DocName, <<"T", "i", "t", "l", "e">>,
                                 <<"T", "i", "t", "l", "e", ".md">>, <<"R", "T">>,
                                 sections, create_modules)
    /\ Exits("new_doc", <<DocName>>, 0, "")
    /\ UNCHANGED procVars

NewDocCancelledCmd ==
    /\ Counted
    /\ create_document_config_Cancelled(DocName)
    /\ Exits("new_doc", <<DocName>>, 0, "")
    /\ UNCHANGED procVars

NextScaffold ==
    \/ NewDocCmd
    \/ NewDocCancelledCmd
    \/ DeleteModuleCmd
    \/ BuildCmd
    \/ BuildNoConfigCmd
    \/ ValidateCmd
    \/ ValidateNoConfigCmd

SpecScaffold == Init /\ [][NextScaffold]_vars

-----------------------------------------------------------------------------
(* The conversion instance: built documents in dist/, converted with       *)
(* convert and convert-all.                                                *)

OldBuild == <<"r", "t", "-", "o", "l", "d", ".md">>

ConvertDistDirs ==
    {NoFiles,
     WriteFile(NoFiles, ConfigWith(<<>>).filename, <<"x">>),
     WriteFile(NoFiles, OldBuild, <<"x">>),
     WriteFile(WriteFile(NoFiles, ConfigWith(<<>>).filename, <<"x">>), OldBuild, <<"x">>)}

\* --format docx | pdf | both
FormatChoices == {{"docx"}, {"pdf"}, {"docx", "pdf"}}

InitConvert ==
    /\ configs \in {NoFiles, WriteFile(NoFiles, DocName, ConfigWith(<<IdA>>))}
    /\ maps = NoFiles
    /\ modules = NoFiles
    /\ dist \in ConvertDistDirs
    /\ now = 0 /\ built = <<>> /\ validated = <<>> /\ lastSplit = <<>> /\ commands = 0
    /\ cli = <<>> /\ pandoc = <<>> /\ splitters = <<>>
    /\ ExIdle

ConvertAllCmd ==
    /\ Counted
    /\ \E formats \in FormatChoices : convert_all(formats)
    /\ UNCHANGED splitters

ConvertAllEmptyCmd ==
    /\ Counted
    /\ convert_all_Empty
    /\ UNCHANGED splitters

ConvertCmd ==
    /\ Counted
    /\ \E formats \in FormatChoices : convert_document(DocName, formats)
    /\ UNCHANGED splitters

ConvertNotFoundCmd ==
    /\ Counted
    /\ convert_document_NotFound(DocName)
    /\ UNCHANGED splitters

NextConvert ==
    \/ ConvertAllCmd
    \/ ConvertAllEmptyCmd
    \/ ConvertCmd
    \/ ConvertNotFoundCmd

SpecConvert == InitConvert /\ [][NextConvert]_vars

-----------------------------------------------------------------------------
(* The stepwise instance: one operator, one split at a time, each split    *)
(* taken file operation by file operation, and validations in between.     *)

\* No split is under way.
Idle == \A p \in DOMAIN splitters : splitters[p].pc = "done"

StepsStart ==
    /\ Counted
    /\ Idle
    /\ \E src \in SourceDocs : SplitterStart(1, DocName, src)
    /\ cli' = <<>>
    /\ UNCHANGED pandoc

StepsSaveConfig ==
    /\ Uncounted
    /\ SplitterSaveConfig(1)
    /\ UNCHANGED <<cli, pandoc>>

StepsWriteModule ==
    /\ Uncounted
    /\ SplitterWriteModule(1)
    /\ UNCHANGED <<cli, pandoc>>

StepsWriteMap ==
    /\ Uncounted
    /\ SplitterWriteMap(1)
    /\ Exits("split", <<DocName>>, 0, "")
    /\ UNCHANGED pandoc

StepsLoadExternalConfig == Idle /\ LoadExternalConfigCmd

StepsValidate == Idle /\ ValidateCmd

NextSteps ==
    \/ StepsStart
    \/ StepsSaveConfig
    \/ StepsWriteModule
    \/ StepsWriteMap
    \/ StepsLoadExternalConfig
    \/ StepsValidate

SpecSteps == Init /\ [][NextSteps]_vars

-----------------------------------------------------------------------------
(* The concurrent instance: two splits of one configuration name, started  *)
(* by two operators, whose file operations interleave.                     *)

Procs == {1, 2}

\* A hand-written configuration with a prefix of its own, for "## A", "## B".
ConfigXX ==
    [filename |-> <<"T", "i", "t", "l", "e", ".md">>,
     prefix |-> <<"X", "X">>,
     title |-> <<"T", "i", "t", "l", "e">>,
     document_outline |-> <<SectionOf(IdA), SectionOf(IdB)>>]

RaceDocs == {SrcRoundTrip, SrcEdited}

InitRace ==
    /\ configs \in {NoFiles, WriteFile(NoFiles, DocName, ConfigXX)}
    /\ maps = NoFiles /\ modules = NoFiles /\ dist = NoFiles
    /\ now = 0 /\ built = <<>> /\ validated = <<>> /\ lastSplit = <<>> /\ commands = 0
    /\ cli = <<>> /\ pandoc = <<>> /\ splitters = <<>>
    /\ ExIdle

RaceStart ==
    /\ Counted
    /\ \E p \in Procs, src \in RaceDocs :
          /\ p \notin DOMAIN splitters
          /\ SplitterStart(p, DocName, src)
    /\ UNCHANGED <<cli, pandoc>>

RaceSaveConfig ==
    /\ Uncounted
    /\ \E p \in Procs : SplitterSaveConfig(p)
    /\ UNCHANGED <<cli, pandoc>>

RaceWriteModule ==
    /\ Uncounted
    /\ \E p \in Procs : SplitterWriteModule(p)
    /\ UNCHANGED <<cli, pandoc>>

RaceWriteMap ==
    /\ Uncounted
    /\ \E p \in Procs : SplitterWriteMap(p)
    /\ Exits("split", <<DocName>>, 0, "")
    /\ UNCHANGED pandoc

NextRace ==
    \/ RaceStart
    \/ RaceSaveConfig
    \/ RaceWriteModule
    \/ RaceWriteMap

SpecRace == InitRace /\ [][NextRace]_vars

-----------------------------------------------------------------------------
(* Vocabulary of the extractor's contract, written without the operators   *)
(* that model extract_section.                                             *)

\* The least index i >= from with pat a substring of lines[i]; 0 if there is none.
FirstFrom(lines, pat, from) ==
    IF \E i \in from..Len(lines) : Contains(pat, lines[i])
    THEN CHOOSE i \in from..Len(lines) :
            /\ Contains(pat, lines[i])
            /\ \A j \in from..(i - 1) : ~Contains(pat, lines[j])
    ELSE 0

ExReturned == exResult # Pending

\* s of the contract: the first line containing start_pattern.
ExS == FirstFrom(exLines, exStart, 1)

\* e of the contract: the first line after s containing end_pattern (end_pattern a str).
ExE == IF ExS = 0 \/ exEnd = None THEN 0 ELSE FirstFrom(exLines, exEnd, ExS + 1)

\* C2 as stated: whenever s and e exist, for any end_pattern string, the
\* result is exactly the lines [s, e).
C2_AnyEndPattern ==
    (ExReturned /\ ExS # 0 /\ ExE # 0)
        => SplitLines(exResult) = SubSeq(exLines, ExS, ExE - 1)

\* C2 (amended): for a non-empty end_pattern, when s is the first line containing
\* start_pattern and e the first line after s containing end_pattern, the result
\* is exactly the lines [s, e): line s is included, line e is not.
C2_ExtractUpToEnd ==
    (ExReturned /\ ExS # 0 /\ ExE # 0 /\ exEnd # <<>>)
        => /\ SplitLines(exResult) = SubSeq(exLines, ExS, ExE - 1)
           /\ Len(SplitLines(exResult)) = ExE - ExS
           /\ SplitLines(exResult)[1] = exLines[ExS]

\* C2's case: the end_pattern occurs in line s and in a line before s, and a
\* later line e ends the section.
C2_Witness ==
    /\ ExReturned /\ ExS >= 2 /\ ExE # 0 /\ exEnd # <<>>
    /\ Contains(exEnd, exLines[ExS])
    /\ \E j \in 1..(ExS - 1) : Contains(exEnd, exLines[j])
    /\ ExE = ExS + 1

\* C3: start_pattern found at s and end_pattern absent, or present with no line
\* after s containing it: the result is every line from s to the last line.
C3_ExtractToEndOfDocument ==
    (ExReturned /\ ExS # 0 /\ ExE = 0)
        => SplitLines(exResult) = SubSeq(exLines, ExS, Len(exLines))

\* C3's case: an end_pattern that occurs only before s, with lines after s.
C3_Witness ==
    /\ ExReturned /\ ExS >= 2 /\ ExS < Len(exLines)
    /\ exEnd # None /\ exEnd # <<>> /\ ExE = 0
    /\ \E j \in 1..(ExS - 1) : Contains(exEnd, exLines[j])

-----------------------------------------------------------------------------
(* Vocabulary of the builder's and validator's contracts, written without  *)
(* the operators that model build.py.                                      *)

\* '{prefix}-{id}.md'
FileOf(prefix, id) == prefix \o <<"-">> \o id \o <<".md">>

HasMapOrder(name) == name \in DOMAIN maps /\ "module_order" \in DOMAIN maps[name]

\* The resolved order of the contract: the map's module_order when a map exists
\* and defines it, else the outline's ids in declared order.
ResolvedOrder(name) ==
    IF HasMapOrder(name) THEN maps[name].module_order
    ELSE [i \in 1..Len(configs[name].document_outline) |->
             configs[name].document_outline[i].id]

\* The module files of the resolved order, in order.
ResolvedFiles(name) ==
    [i \in 1..Len(ResolvedOrder(name)) |->
        FileOf(configs[name].prefix, ResolvedOrder(name)[i])]

\* The positions of the resolved order whose module file exists, ascending.
RECURSIVE PresentUpTo(_, _)
PresentUpTo(name, n) ==
    IF n = 0 THEN <<>>
    ELSE IF ResolvedFiles(name)[n] \in DOMAIN modules
         THEN Append(PresentUpTo(name, n - 1), n)
         ELSE PresentUpTo(name, n - 1)

Present(name) == PresentUpTo(name, Len(ResolvedOrder(name)))

BuiltOk == built # <<>> /\ built[1].status = "ok"

ValidatedOk == validated # <<>> /\ validated[1].status = "ok"

\* The files a report names, in the order it names them.
ReportedFiles(printed) == [i \in 1..Len(printed) |-> printed[i][2]]

\* The text of the assembled document after its header.
HeaderLen(name) == Len(configs[name].title) + 12

OutputText(name) == dist[configs[name].filename]

OutputBody(name) == SubSeq(OutputText(name), HeaderLen(name) + 1, Len(OutputText(name)))

\* The header of the contract: '# {title}', a blank line, the two comment
\* lines, a blank line. The timestamp's two characters are left open.
IsHeader(h, title) ==
    /\ Len(h) = Len(title) + 12
    /\ SubSeq(h, 1, Len(title) + 4) = <<"#", " ">> \o title \o <<NL, NL>>
    /\ SubSeq(h, Len(title) + 5, Len(title) + 7)
          = <<"<!-- This document was automatically generated from modular components -->",
              NL, "<!-- Generated on: ">>
    /\ SubSeq(h, Len(title) + 10, Len(title) + 12) = <<" -->", NL, NL>>

RuleLine == <<NL, "-", "-", "-", NL, NL>>

\* parts[1] o sep o parts[2] o sep o ... o parts[n]
RECURSIVE Intercalate(_, _)
Intercalate(sep, parts) ==
    IF parts = <<>> THEN <<>>
    ELSE IF Len(parts) = 1 THEN parts[1]
    ELSE parts[1] \o sep \o Intercalate(sep, Tail(parts))

\* parts[i], each optionally preceded by sep as lead[i] says.
RECURSIVE Led(_, _, _)
Led(sep, parts, lead) ==
    IF parts = <<>> THEN <<>>
    ELSE (IF lead[1] THEN sep ELSE <<>>) \o parts[1] \o Led(sep, Tail(parts), Tail(lead))

\* The bodies of the included modules: each present file's content and the
\* newline that ends it, in resolved order.
IncludedBodies(name) ==
    [k \in 1..Len(Present(name)) |->
        modules[ResolvedFiles(name)[Present(name)[k]]] \o <<NL>>]

\* C1: the order build and validate walk is the map's module_order when a map
\* exists and defines module_order, and the outline's ids in declared order
\* otherwise: their per-module reports name exactly that order's files.
C1_OrderResolution ==
    /\ BuiltOk => ReportedFiles(built[1].printed) = ResolvedFiles(DocName)
    /\ ValidatedOk => ReportedFiles(validated[1].printed) = ResolvedFiles(DocName)

\* C1's case: a map whose module_order drops an outline id and adds a foreign
\* one, walked by both build and validate.
C1_Witness ==
    /\ BuiltOk /\ ValidatedOk /\ HasMapOrder(DocName)
    /\ OutlineIds(configs[DocName].document_outline) = <<IdA, IdB>>
    /\ maps[DocName].module_order = <<IdC, IdA>>
    /\ ReportedFiles(built[1].printed) = <<FileOf(<<"R", "T">>, IdC), FileOf(<<"R", "T">>, IdA)>>

\* C7: on one on-disk state validate returns true iff build finds every module
\* of the resolved order, and validate's answer is file existence of exactly
\* the resolved order's ids.
C7_ValidatorBuilderAgreement ==
    /\ (BuiltOk /\ ValidatedOk)
          => (validated[1].result <=> built[1].modules_found = built[1].total)
    /\ ValidatedOk
          => (validated[1].result
                <=> \A i \in 1..Len(ResolvedFiles(DocName)) :
                        ResolvedFiles(DocName)[i] \in DOMAIN modules)

\* C7's case: the map adds an id whose file is missing while every outline id
\* has its file: both report the miss.
C7_Witness ==
    /\ BuiltOk /\ ValidatedOk /\ HasMapOrder(DocName)
    /\ maps[DocName].module_order = <<IdA, IdC>>
    /\ OutlineIds(configs[DocName].document_outline) = <<IdA>>
    /\ FileOf(<<"R", "T">>, IdA) \in DOMAIN modules
    /\ ~validated[1].result
    /\ built[1].modules_found = 1 /\ built[1].total = 2

\* C8: whenever the configuration loads, build completes; it reports
\* found = the number of resolved positions with a file and total = the length
\* of the resolved order, and its body is the present files' contents, once per
\* occurrence and in resolved order, with nothing but rule lines in between.
C8_BuildToleratesMissing ==
    (built # <<>> /\ DocName \in DOMAIN configs)
        => /\ built[1].status = "ok"
           /\ built[1].total = Len(ResolvedOrder(DocName))
           /\ built[1].modules_found = Len(Present(DocName))
           /\ \E lead \in [1..Len(Present(DocName)) -> BOOLEAN] :
                 OutputBody(DocName) = Led(RuleLine, IncludedBodies(DocName), lead)

\* C8's case: a repeated id and a missing file in one order.
C8_Witness ==
    /\ BuiltOk /\ HasMapOrder(DocName)
    /\ maps[DocName].module_order = <<IdB, IdC, IdB>>
    /\ built[1].modules_found = 2 /\ built[1].total = 3
    /\ built[1].printed[2][1] = "Missing"

\* C9 as stated: header, then the included bodies joined by rule lines, a rule
\* line only between two included bodies.
C9_SeparatorsOnlyBetween ==
    BuiltOk
        => /\ IsHeader(SubSeq(OutputText(DocName), 1, HeaderLen(DocName)),
                       configs[DocName].title)
           /\ OutputBody(DocName) = Intercalate(RuleLine, IncludedBodies(DocName))

\* The same text with the two timestamp characters blanked.
Unstamped(text, title) ==
    [i \in 1..Len(text) |->
        IF i \in {Len(title) + 8, Len(title) + 9} THEN "?" ELSE text[i]]

\* C10: a build that finds the output of an earlier build of the same
\* configuration, map and module files writes the same path and the same
\* content but for the timestamp; nothing else of the earlier output is left.
C10_BuildIdempotent ==
    [][(BuiltOk /\ (built' # built \/ dist' # dist))
          => /\ built'[1].output_path = built[1].output_path
             /\ DOMAIN dist' = DOMAIN dist
             /\ Unstamped(dist'[built[1].output_path], configs[DocName].title)
                   = Unstamped(dist[built[1].output_path], configs[DocName].title)]_vars

\* C10's case: a second build, at a later second, over the first one's output.
C10_Witness ==
    /\ BuiltOk /\ built[1].overwrote /\ now > 0
    /\ built[1].modules_found >= 2
    /\ SubSeq(OutputText(DocName), Len(configs[DocName].title) + 8,
              Len(configs[DocName].title) + 9) = Timestamp(now)

-----------------------------------------------------------------------------
(* Vocabulary of the splitter's contract.                                  *)

\* A split has run and the configuration, map and modules are as it left them.
SplitDone == lastSplit # <<>>

\* The outline the split worked with: the stored configuration's.
SplitOutline == configs[DocName].document_outline

\* No later section of the outline writes the same module file as section i.
LastWriter(i) ==
    \A j \in (i + 1)..Len(SplitOutline) : SplitOutline[j].id # SplitOutline[i].id

SectionFile(i) == FileOf(configs[DocName].prefix, SplitOutline[i].id)

SectionFound(i) == FirstFrom(lastSplit[1].lines, SplitOutline[i].start_pattern, 1) # 0

\* The lines of the contract for a found section: from the first line with
\* start_pattern up to, not including, the first later line with a non-empty
\* end_pattern, or to the last line.
SectionLines(lines, start_pattern, end_pattern) ==
    LET first == FirstFrom(lines, start_pattern, 1)
        stop == IF end_pattern = None \/ end_pattern = <<>> THEN 0
                ELSE FirstFrom(lines, end_pattern, first + 1)
    IN  SubSeq(lines, first, IF stop = 0 THEN Len(lines) ELSE stop - 1)

RoundTripLines ==
    << <<"#", " ", "T", "i", "t", "l", "e">>, <<"#", "#", " ", "A">>, <<"a", "1">>,
       <<"a", "2">>, <<"#", "#", " ", "B">>, <<"b", "1">> >>

\* The outline [A(start "## A", end "## B"), B(start "## B", no end)].
IsRoundTripOutline(outline) ==
    /\ Len(outline) = 2
    /\ outline[1].start_pattern = <<"#", "#", " ", "A">>
    /\ outline[1].end_pattern = <<"#", "#", " ", "B">>
    /\ outline[2].start_pattern = <<"#", "#", " ", "B">>
    /\ outline[2].end_pattern = None

\* The round-trip example has been split and nothing but builds and validations
\* followed.
RoundTripSplit ==
    /\ SplitDone
    /\ lastSplit[1].lines = RoundTripLines
    /\ IsRoundTripOutline(SplitOutline)

\* C4: a section whose start_pattern no line of the source contains still gets
\* its module file, holding only the 'Section not found' comment with that
\* start_pattern, and every section of the outline and the module map are
\* written all the same.
C4_MissingSectionPlaceholder ==
    SplitDone =>
        /\ Len(lastSplit[1].module_writes) = Len(SplitOutline)
        /\ \A i \in 1..Len(SplitOutline) :
              /\ lastSplit[1].module_writes[i].path = SectionFile(i)
              /\ SectionFile(i) \in DOMAIN modules
              /\ ~SectionFound(i) =>
                    /\ lastSplit[1].module_writes[i].content
                          = <<"<!-- Section not found: ">> \o SplitOutline[i].start_pattern
                               \o <<" -->", NL>>
                    /\ LastWriter(i) =>
                          modules[SectionFile(i)] = lastSplit[1].module_writes[i].content
        /\ DocName \in DOMAIN maps
        /\ maps[DocName].module_order
              = [i \in 1..Len(SplitOutline) |-> SplitOutline[i].id]

\* C4's case: the first section of three is not found, the two after it are.
C4_Witness ==
    /\ SplitDone /\ Len(SplitOutline) = 3
    /\ ~SectionFound(1) /\ SectionFound(2) /\ SectionFound(3)
    /\ modules[SectionFile(1)] = <<"<!-- Section not found: ", "z", "z", " -->", NL>>
    /\ modules[SectionFile(3)] = <<"#", "#", " ", "B", NL, "b", "1">>

\* The lines of the assembled document after its header; the empty piece after
\* a final newline is not counted as a line.
OutputBodyLines ==
    LET pieces == SplitLines(OutputBody(DocName))
    IN  IF pieces[Len(pieces)] = <<>> THEN SubSeq(pieces, 1, Len(pieces) - 1) ELSE pieces

\* C5 as stated: the body of the round-trip build is the six lines, without
\* blank lines.
C5_BodyWithoutBlankLines ==
    (RoundTripSplit /\ BuiltOk)
        => OutputBodyLines
              = << <<"#", "#", " ", "A">>, <<"a", "1">>, <<"a", "2">>, <<"-", "-", "-">>,
                   <<"#", "#", " ", "B">>, <<"b", "1">> >>

\* C5 (amended): the body of the round-trip build is the lines "## A", "a1",
\* "a2", "", "---", "", "## B", "b1": the rule line has a blank line on either
\* side, and the body ends with a newline.
C5_RoundTripBuild ==
    (RoundTripSplit /\ BuiltOk)
        => /\ OutputBodyLines
                = << <<"#", "#", " ", "A">>, <<"a", "1">>, <<"a", "2">>, <<>>,
                     <<"-", "-", "-">>, <<>>, <<"#", "#", " ", "B">>, <<"b", "1">> >>
           /\ OutputBody(DocName)[Len(OutputBody(DocName))] = NL

\* C5's case: the example split, then built from the map the split wrote.
C5_Witness ==
    /\ RoundTripSplit /\ BuiltOk
    /\ maps[DocName].module_order = <<IdA, IdB>>
    /\ built[1].modules_found = 2 /\ built[1].total = 2

\* C6: the module file of a found section holds exactly the extracted lines
\* joined by single newlines, nothing after the last; in the round-trip example
\* module A is "## A", "a1", "a2", module B is "## B", "b1", and no module
\* holds the title line.
C6_RoundTripSplit ==
    /\ SplitDone =>
          \A i \in 1..Len(SplitOutline) :
              (SectionFound(i) /\ LastWriter(i))
                  => SplitLines(modules[SectionFile(i)])
                        = SectionLines(lastSplit[1].lines, SplitOutline[i].start_pattern,
                                       SplitOutline[i].end_pattern)
    /\ RoundTripSplit =>
          /\ modules[SectionFile(1)] = <<"#", "#", " ", "A", NL, "a", "1", NL, "a", "2">>
          /\ modules[SectionFile(2)] = <<"#", "#", " ", "B", NL, "b", "1">>
          /\ \A i \in 1..2 :
                ~InSeq(RoundTripLines[1], SplitLines(modules[SectionFile(i)]))

\* C6's case: the example split.
C6_Witness ==
    /\ RoundTripSplit
    /\ SectionFound(1) /\ SectionFound(2)
    /\ SectionFile(1) = <<"R", "T", "-", "a", ".md">>
    /\ SectionFile(2) = <<"R", "T", "-", "b", ".md">>

-----------------------------------------------------------------------------
(* Vocabulary of configuration inference, written without the operators    *)
(* that model create_config_from_document.                                 *)

\* A line that starts with exactly n '#', then whitespace, then at least one
\* more character.
IsHeadingLine(line, n) ==
    /\ Len(line) >= n + 2
    /\ \A j \in 1..n : line[j] = "#"
    /\ line[n + 1] \in Whitespace

HeadingLines(lines, n) == SelectSeq(lines, LAMBDA line : IsHeadingLine(line, n))

RECURSIVE DropLeadingWhitespace(_)
DropLeadingWhitespace(str) ==
    IF str # <<>> /\ str[1] \in Whitespace THEN DropLeadingWhitespace(Tail(str)) ELSE str

\* The text of a heading line of level n: what follows the whitespace after
\* the marker, or the last whitespace character when nothing follows.
HeadingText(line, n) ==
    LET rest == DropLeadingWhitespace(SubSeq(line, n + 1, Len(line)))
    IN  IF rest = <<>> THEN <<line[Len(line)]>> ELSE rest

\* The level the selection policy names; 0 for the generic template.
PolicyLevel(lines) ==
    IF Len(HeadingLines(lines, 1)) >= 2 THEN 1
    ELSE IF Len(HeadingLines(lines, 2)) >= 2 THEN 2
    ELSE IF Len(HeadingLines(lines, 3)) >= 1 THEN 3
    ELSE 0

\* The last split created the configuration from the document.
Inferred == SplitDone /\ lastSplit[1].created_config

InferredOutline == lastSplit[1].config.document_outline

InferredLevel == PolicyLevel(lastSplit[1].lines)

\* C11: inference takes the level-1 headings when there are at least two,
\* else the level-2 headings when there are at least two, else the level-3
\* headings when there is at least one, else the generic template with the
\* ids 'overview' and 'content'; the lines counted for level n are those that
\* start with exactly n '#' followed by whitespace and text.
C11_SelectionPolicy ==
    Inferred =>
        IF InferredLevel = 0
        THEN /\ Len(InferredOutline) = 2
             /\ InferredOutline[1].id = <<"o", "v", "e", "r", "v", "i", "e", "w">>
             /\ InferredOutline[2].id = <<"c", "o", "n", "t", "e", "n", "t">>
        ELSE /\ Len(InferredOutline) = Len(HeadingLines(lastSplit[1].lines, InferredLevel))
             /\ \A i \in 1..Len(InferredOutline) :
                   /\ IsHeadingLine(InferredOutline[i].start_pattern, InferredLevel)
                   /\ InferredOutline[i].heading
                         = HeadingText(HeadingLines(lastSplit[1].lines, InferredLevel)[i],
                                       InferredLevel)

\* C11's case: two level-1 headings are selected although the document also
\* has a heading of a deeper level.
C11_Witness ==
    /\ Inferred
    /\ InferredLevel = 1
    /\ Len(InferredOutline) = 2
    /\ \/ Len(HeadingLines(lastSplit[1].lines, 2)) >= 1
       \/ Len(HeadingLines(lastSplit[1].lines, 3)) >= 1

\* C12: the inferred outline has one section per selected heading, in
\* document order; a start_pattern is the marker of the selected level, one
\* space and the heading text; an end_pattern is the next section's
\* start_pattern, and the last section has none.
C12_OutlineShape ==
    (Inferred /\ InferredLevel # 0) =>
        LET selected == HeadingLines(lastSplit[1].lines, InferredLevel)
        IN  /\ Len(InferredOutline) = Len(selected)
            /\ \A i \in 1..Len(InferredOutline) :
                  /\ InferredOutline[i].start_pattern
                        = [j \in 1..InferredLevel |-> "#"] \o <<" ">>
                             \o HeadingText(selected[i], InferredLevel)
                  /\ InferredOutline[i].end_pattern
                        = IF i < Len(InferredOutline)
                          THEN InferredOutline[i + 1].start_pattern
                          ELSE None

\* C12's case: an inferred outline of three sections.
C12_Witness ==
    /\ Inferred
    /\ InferredLevel # 0
    /\ Len(InferredOutline) = 3
    /\ InferredOutline[3].end_pattern = None
    /\ InferredOutline[1].end_pattern = InferredOutline[2].start_pattern

\* C15: the ids of an inferred outline are pairwise distinct, so an outline
\* of N sections yields N module files and N entries in the map's modules.
C15_UniqueIds ==
    Inferred =>
        /\ \A i, j \in 1..Len(InferredOutline) :
              InferredOutline[i].id = InferredOutline[j].id => i = j
        /\ Cardinality({lastSplit[1].module_writes[i].path :
                            i \in 1..Len(lastSplit[1].module_writes)})
              = Len(InferredOutline)
        /\ Cardinality(DOMAIN maps[DocName].modules) = Len(InferredOutline)

\* C16: every id inference derives from a heading is a non-empty string of
\* lowercase letters, digits and underscores.
C16_SafeIds ==
    (Inferred /\ InferredLevel # 0) =>
        \A i \in 1..Len(InferredOutline) :
            /\ InferredOutline[i].id # <<>>
            /\ \A k \in 1..Len(InferredOutline[i].id) :
                  \/ InferredOutline[i].id[k] = "_"
                  \/ \E c \in 1..26 : InferredOutline[i].id[k] = LowerLetters[c]
                  \/ \E c \in 1..10 : InferredOutline[i].id[k] = Digits[c]

\* C17: every module file split writes ends with a newline, for a found
\* section as for the 'Section not found' comment.
C17_NewlineTerminated ==
    SplitDone =>
        \A i \in 1..Len(lastSplit[1].module_writes) :
            LET content == lastSplit[1].module_writes[i].content
            IN  content # <<>> /\ content[Len(content)] = NL

-----------------------------------------------------------------------------
(* Vocabulary of the splitter's configuration check and module map.        *)

\* The level (1, 2 or 3) of a pattern that begins with '# ', '## ' or '### ';
\* 0 for any other pattern.
PatternLevel(pattern) ==
    IF \E n \in 1..3 : /\ Len(pattern) >= n + 1
                       /\ \A j \in 1..n : pattern[j] = "#"
                       /\ pattern[n + 1] = " "
    THEN CHOOSE n \in 1..3 : /\ Len(pattern) >= n + 1
                             /\ \A j \in 1..n : pattern[j] = "#"
                             /\ pattern[n + 1] = " "
    ELSE 0

\* The heading texts of level n in the document.
HeadingTexts(lines, n) ==
    {HeadingText(HeadingLines(lines, n)[i], n) : i \in 1..Len(HeadingLines(lines, n))}

\* Some section's start_pattern names a heading the document does not have
\* at that level.
Stale(config, lines) ==
    \E i \in 1..Len(config.document_outline) :
        LET pattern == config.document_outline[i].start_pattern
            n == PatternLevel(pattern)
        IN  /\ n # 0
            /\ SubSeq(pattern, n + 2, Len(pattern)) \notin HeadingTexts(lines, n)

\* The start and end patterns inference gives the document's sections.
FreshPatterns(lines) ==
    LET n == PolicyLevel(lines)
        selected == HeadingLines(lines, n)
        start(i) == [j \in 1..n |-> "#"] \o <<" ">> \o HeadingText(selected[i], n)
    IN  IF n = 0
        THEN << << <<"#", "#", " ", "O", "v", "e", "r", "v", "i", "e", "w">>,
                   <<"#", "#", " ", "N", "e", "x", "t", " ", "S", "e", "c", "t", "i", "o", "n">> >>,
                << <<"#", "#", " ", "N", "e", "x", "t", " ", "S", "e", "c", "t", "i", "o", "n">>,
                   None >> >>
        ELSE [i \in 1..Len(selected) |->
                 <<start(i), IF i < Len(selected) THEN start(i + 1) ELSE None>>]

PatternsOf(outline) ==
    [i \in 1..Len(outline) |-> <<outline[i].start_pattern, outline[i].end_pattern>>]

\* The step is a split: a command that leaves a split report and no build or
\* validation report.
SplitStep ==
    /\ commands' = commands + 1
    /\ lastSplit' # <<>>
    /\ built' = <<>> /\ validated' = <<>>

\* C13: when split is run with a source document and the stored configuration
\* has a section whose start_pattern ('# ', '## ' or '### ' and a heading
\* text) names a heading that is not among the document's headings of that
\* level, the stored configuration is replaced by a freshly inferred one and
\* the split writes the modules and the map of the regenerated outline.
C13_StaleConfigRegenerated ==
    [][(/\ SplitStep
        /\ DocName \in DOMAIN configs
        /\ Stale(configs[DocName], lastSplit'[1].lines))
       => (/\ lastSplit'[1].created_config
           /\ configs'[DocName] = lastSplit'[1].config
           /\ PatternsOf(configs'[DocName].document_outline)
                 = FreshPatterns(lastSplit'[1].lines)
           /\ Len(lastSplit'[1].module_writes) = Len(configs'[DocName].document_outline)
           /\ \A i \in 1..Len(configs'[DocName].document_outline) :
                 lastSplit'[1].module_writes[i].path
                    = FileOf(configs'[DocName].prefix,
                             configs'[DocName].document_outline[i].id)
           /\ maps'[DocName].module_order
                 = [i \in 1..Len(configs'[DocName].document_outline) |->
                       configs'[DocName].document_outline[i].id])]_vars

\* C13's case: the configuration with the sections A and B existed and the
\* document now has the headings A and C: the outline is A, C.
C13_Witness ==
    /\ SplitDone
    /\ lastSplit[1].config_existed
    /\ lastSplit[1].created_config
    /\ FileOf(<<"R", "T">>, IdB) \in DOMAIN modules
    /\ PatternsOf(SplitOutline) = << <<LineA, LineC>>, <<LineC, None>> >>

\* C14: after a split, whatever module map existed before, the map on disk
\* has module_order equal to the outline's ids in outline order and a modules
\* mapping whose keys are exactly those ids, each entry recording a section
\* of that id with its position in the outline (counted from 0) as index;
\* nothing else is in the map.
C14_MapRegenerated ==
    SplitDone =>
        /\ DocName \in DOMAIN maps
        /\ DOMAIN maps[DocName] = {"document_name", "prefix", "module_order", "modules"}
        /\ maps[DocName].document_name = DocName
        /\ maps[DocName].prefix = configs[DocName].prefix
        /\ maps[DocName].module_order
              = [i \in 1..Len(SplitOutline) |-> SplitOutline[i].id]
        /\ DOMAIN maps[DocName].modules
              = {SplitOutline[i].id : i \in 1..Len(SplitOutline)}
        /\ \A id \in DOMAIN maps[DocName].modules :
              \E i \in 1..Len(SplitOutline) :
                  /\ SplitOutline[i].id = id
                  /\ maps[DocName].modules[id].index = i - 1
                  /\ maps[DocName].modules[id].heading = SplitOutline[i].heading
                  /\ maps[DocName].modules[id].start_pattern = SplitOutline[i].start_pattern
                  /\ maps[DocName].modules[id].end_pattern = SplitOutline[i].end_pattern

\* C14's case: a split to the outline A, C after an earlier split had written
\* the module of B and a map that listed it.
C14_Witness ==
    /\ SplitDone
    /\ lastSplit[1].config_existed
    /\ FileOf(<<"R", "T">>, IdB) \in DOMAIN modules
    /\ maps[DocName].module_order = <<IdA, IdC>>
    /\ DOMAIN maps[DocName].modules = {IdA, IdC}

-----------------------------------------------------------------------------
(* Vocabulary of the command line of build.py.                             *)

CliRan == cli # <<>>

\* The names a batch reported on, successfully or not.
BatchProcessed == {cli[1].processed[k][1] : k \in 1..Len(cli[1].processed)}

\* C18: when build-all or validate without --doc runs over several
\* configurations and one of them cannot be loaded or lacks a key, the failure
\* is reported for that configuration and every other configuration is still
\* processed.
C18_BatchContinues ==
    (CliRan /\ cli[1].action \in {"build-all", "validate"} /\ cli[1].doc = <<>>) =>
        \A name \in DOMAIN configs : name \in BatchProcessed

\* Some module file of the order resolved for the configuration is missing.
ModulesMissing(name) ==
    /\ name \in DOMAIN configs
    /\ HasKeys(configs[name], {"prefix", "document_outline"})
    /\ \E i \in 1..Len(ResolvedOrder(name)) :
          FileOf(configs[name].prefix, ResolvedOrder(name)[i]) \notin DOMAIN modules

\* The failures a caller of build, validate and create-map is to see.
CallerVisibleFailure ==
    \/ cli[1].action \in {"build", "create-map"} /\ cli[1].doc = <<>>
    \/ cli[1].doc # <<>> /\ cli[1].doc[1] \notin DOMAIN configs
    \/ /\ cli[1].action = "validate"
       /\ \E name \in (IF cli[1].doc = <<>> THEN DOMAIN configs ELSE {cli[1].doc[1]}) :
             ModulesMissing(name)

\* C19: build, validate and create-map end with a non-zero exit status when
\* --doc is required and missing, when the named configuration does not exist
\* or, for validate, when a resolved module file is missing, and with status
\* zero otherwise. (Stated for complete configurations and a non-empty
\* configuration directory.)
C19_ExitStatus ==
    (/\ CliRan
     /\ cli[1].action \in {"build", "validate", "create-map"}
     /\ cli[1].error # "KeyError"
     /\ ~(cli[1].action = "validate" /\ cli[1].doc = <<>> /\ configs = NoFiles)) =>
        (cli[1].exit_status # 0 <=> CallerVisibleFailure)

\* C20: build, validate or create-map for a name without a stored
\* configuration fails, the failure comes with the list of the available
\* configurations, no configuration is created, and no assembled document or
\* module map is written.
C20_ConfigNotFound ==
    [][(/\ commands' = commands + 1
        /\ cli'[1].action \in {"build", "validate", "create-map"}
        /\ cli'[1].doc # <<>>
        /\ cli'[1].doc[1] \notin DOMAIN configs)
       => (/\ cli'[1].exit_status # 0
           /\ cli'[1].available_printed
           /\ configs' = configs
           /\ dist' = dist
           /\ maps' = maps)]_vars

\* The part of C20 the listing does not touch.
C20_NothingWritten ==
    [][(/\ commands' = commands + 1
        /\ cli'[1].action \in {"build", "validate", "create-map"}
        /\ cli'[1].doc # <<>>
        /\ cli'[1].doc[1] \notin DOMAIN configs)
       => (/\ cli'[1].exit_status # 0
           /\ configs' = configs
           /\ dist' = dist
           /\ maps' = maps)]_vars

-----------------------------------------------------------------------------
(* The split report.                                                       *)

\* C21: for each section whose start_pattern no line of the source contains,
\* the per-module line split prints marks the module as a failure, unlike the
\* line of a found section, and the count split prints at the end counts the
\* found sections apart from the others.
C21_NotFoundFlagged ==
    SplitDone =>
        /\ \A i \in 1..Len(SplitOutline) :
              ~SectionFound(i) => lastSplit[1].printed[i][1] # "Created"
        /\ lastSplit[1].modules_created
              = Cardinality({i \in 1..Len(SplitOutline) : SectionFound(i)})

-----------------------------------------------------------------------------
(* Module file names.                                                      *)

\* C22: every module file the system creates for a configuration is named
\* '{prefix}-{id}.md' for a section id of the configuration, with no numeric
\* component: the file build and validate look up for that id.
C22_ModuleNaming ==
    [][\A f \in DOMAIN modules' \ DOMAIN modules :
          /\ DocName \in DOMAIN configs'
          /\ \E i \in 1..Len(configs'[DocName].document_outline) :
                f = FileOf(configs'[DocName].prefix,
                           configs'[DocName].document_outline[i].id)]_vars

-----------------------------------------------------------------------------
(* The converter's retry protocol.                                         *)

IsOption(arg) == arg[1] = "-"

\* The options that are followed by a value of their own.
TakesValue(arg) ==
    arg \in {<<"-", "o">>, <<"-", "V">>, <<"-", "-", "reference-doc">>}

\* After the program name and the input, every flag that takes a value is
\* followed by one, and every value follows such a flag.
WellFormedPairs(cmd) ==
    /\ \A i \in 1..Len(cmd) :
          TakesValue(cmd[i]) => i < Len(cmd) /\ ~IsOption(cmd[i + 1])
    /\ \A i \in 3..Len(cmd) : ~IsOption(cmd[i]) => TakesValue(cmd[i - 1])

Without1(cmd, args) == SelectSeq(cmd, LAMBDA arg : arg \notin args)

\* The option set of a retry is the reduced one.
ReducedOptions(format, first, retry) ==
    IF format = "docx"
    THEN /\ retry = Without1(first, {<<"-", "-", "reference-doc">>, ReferenceDocx})
         /\ retry # first
    ELSE /\ \E i \in 1..Len(retry) : retry[i] = <<"-", "-", "pdf-engine=", "pdflatex">>
         /\ \A i \in 1..Len(retry) :
               /\ retry[i] # <<"-", "-", "pdf-engine=", "xelatex">>
               /\ ~Contains(<<"mainfont=">>, retry[i])

\* One retry after a failed first run, none after a successful one, and a
\* failure value exactly when the last run failed.
RetriedOnce(conv) ==
    /\ Len(conv.runs) \in {1, 2}
    /\ Len(conv.runs) = 1 <=> conv.runs[1].returncode = 0
    /\ Len(conv.runs) = 2 => ReducedOptions(conv.format, conv.runs[1].cmd, conv.runs[2].cmd)
    /\ conv.result = None <=> conv.runs[Len(conv.runs)].returncode # 0

\* convert-all has converted every file of dist/ to every requested format.
AllConverted ==
    (CliRan /\ cli[1].action = "convert-all") =>
        \A f \in DOMAIN dist :
            \E k \in 1..Len(pandoc) : pandoc[k].file = f

\* C23: a failed first converter run is followed by exactly one retry with
\* the reduced option set, whose options still form well-formed flag/value
\* pairs; a failed retry gives a failure value and the batch goes on.
C23_RetryProtocol ==
    /\ \A k \in 1..Len(pandoc) :
          /\ RetriedOnce(pandoc[k])
          /\ \A r \in 1..Len(pandoc[k].runs) : WellFormedPairs(pandoc[k].runs[r].cmd)
    /\ AllConverted

\* The protocol of C23 without the well-formedness of the retried options.
C23_RetriedAndContinued ==
    /\ \A k \in 1..Len(pandoc) : RetriedOnce(pandoc[k])
    /\ AllConverted

-----------------------------------------------------------------------------
(* Build and validate read their inputs only.                              *)

\* A step that is a build command, one that is a validate command.
BuildStep ==
    commands' = commands + 1 /\ cli' # <<>> /\ cli'[1].action = "build" /\ built' # <<>>

ValidateStep ==
    commands' = commands + 1 /\ cli' # <<>> /\ cli'[1].action = "validate"
        /\ validated' # <<>>

\* C25: a build or a validation leaves the stored configuration, the module
\* map and every module file as they were; a build writes the assembled
\* document only, a validation writes nothing.
C25_ReadOnlyInputs ==
    [][/\ (BuildStep \/ ValidateStep) =>
              configs' = configs /\ maps' = maps /\ modules' = modules
       /\ ValidateStep => dist' = dist
       /\ BuildStep =>
              \A f \in DOMAIN dist \cup DOMAIN dist' :
                  (DocName \notin DOMAIN configs \/ f # configs[DocName].filename)
                      => f \in DOMAIN dist /\ f \in DOMAIN dist' /\ dist'[f] = dist[f]]_vars

\* A build and then a validation have run on a map whose order the operator
\* rewrote, and the map still holds the operator's order.
C25_Witness ==
    /\ BuiltOk /\ ValidatedOk
    /\ CliRan /\ cli[1].action = "validate"
    /\ HasMapOrder(DocName) /\ maps[DocName].module_order = <<IdB, IdA>>
    /\ built[1].total = 2

-----------------------------------------------------------------------------
(* Reuse of a plausible configuration.                                     *)

\* C26: when a configuration exists for the name and every start_pattern
\* that begins with '# ', '## ' or '### ' has its heading text among the
\* source document's headings of that level, split uses the stored outline
\* as it is and does not rewrite the stored configuration; a start_pattern
\* without such a marker makes no configuration stale.
C26_PlausibleConfigReused ==
    [][(/\ SplitStep
        /\ DocName \in DOMAIN configs
        /\ ~Stale(configs[DocName], lastSplit'[1].lines))
       => (/\ configs' = configs
           /\ ~lastSplit'[1].created_config
           /\ lastSplit'[1].config = configs[DocName]
           /\ Len(lastSplit'[1].module_writes) = Len(configs[DocName].document_outline)
           /\ \A i \in 1..Len(configs[DocName].document_outline) :
                 lastSplit'[1].module_writes[i].path
                    = FileOf(configs[DocName].prefix,
                             configs[DocName].document_outline[i].id))]_vars

\* C26's case: the hand-written configuration, whose first start_pattern "zz"
\* has no heading marker, was split against the document with A and B.
C26_Witness ==
    /\ SplitDone
    /\ lastSplit[1].config_existed /\ ~lastSplit[1].created_config
    /\ configs[DocName] = ConfigZAB
    /\ lastSplit[1].lines = RoundTripLines

-----------------------------------------------------------------------------
(* Stability of inference under the validation gate.                       *)

\* The document of the last split, as it is on disk.
LastSource ==
    [stem |-> <<"T", "i", "t", "l", "e">>, content |-> TextOf(lastSplit[1].lines)]

\* C27: the configuration inference produces from a document, the generic
\* fallback included, passes the staleness check against the same document,
\* so that a second split of the document would reuse it.
C27_InferenceStable ==
    Inferred =>
        /\ ~Stale(lastSplit[1].config, lastSplit[1].lines)
        /\ ~MustCreateConfig(DocName, <<LastSource>>)

\* C27, amended: the configuration inference produces from a document in
\* which it finds headings to use passes the staleness check against the same
\* document, so that a second split of the document would reuse it.
C27_HeadingsStable ==
    (Inferred /\ PolicyLevel(lastSplit[1].lines) # 0) =>
        /\ ~Stale(lastSplit[1].config, lastSplit[1].lines)
        /\ ~MustCreateConfig(DocName, <<LastSource>>)

\* A configuration with two sections was inferred from level-3 headings.
C27_Witness ==
    /\ Inferred
    /\ PolicyLevel(lastSplit[1].lines) = 3
    /\ Len(InferredOutline) = 2
    /\ configs[DocName] = lastSplit[1].config

-----------------------------------------------------------------------------
(* The inferred split as a partition of the document.                      *)

\* The line numbers of the heading lines of level n, in document order.
HeadingPositions(lines, n) ==
    LET at == {i \in 1..Len(lines) : IsHeadingLine(lines[i], n)}
    IN  [k \in 1..Cardinality(at) |->
            CHOOSE i \in at : Cardinality({j \in at : j < i}) = k - 1]

\* The lines from the k-th selected heading up to the next selected heading,
\* or to the end of the document after the last.
PartOf(lines, n, k) ==
    LET at == HeadingPositions(lines, n)
    IN  SubSeq(lines, at[k], IF k < Len(at) THEN at[k + 1] - 1 ELSE Len(lines))

\* The lines of the modules written up to the k-th, one after the other.
RECURSIVE WrittenLines(_, _)
WrittenLines(writes, k) ==
    IF k = 0 THEN <<>>
    ELSE WrittenLines(writes, k - 1) \o SplitLines(writes[k].content)

\* The modules written by the last split are the parts of the document.
IsPartition ==
    LET lines == lastSplit[1].lines
        n == PolicyLevel(lines)
        at == HeadingPositions(lines, n)
        writes == lastSplit[1].module_writes
    IN  /\ Len(writes) = Len(at)
        /\ \A k \in 1..Len(at) : SplitLines(writes[k].content) = PartOf(lines, n, k)
        /\ WrittenLines(writes, Len(writes)) = SubSeq(lines, at[1], Len(lines))

\* The start_pattern inference gives the k-th selected heading (marker, one
\* space, heading text) occurs in the heading's own line and in no line
\* before it.
OwnLineFirst(lines, n) ==
    LET at == HeadingPositions(lines, n)
    IN  \A k \in 1..Len(at) :
            FirstFrom(lines, [j \in 1..n |-> "#"] \o <<" ">> \o HeadingText(lines[at[k]], n), 1)
                = at[k]

-----------------------------------------------------------------------------
(* Analyze mode.                                                           *)

\* A step that is a split command with --analyze.
AnalyzeStep ==
    commands' = commands + 1 /\ cli' # <<>> /\ cli'[1].action = "analyze"

\* C29: split --analyze writes no module file and no module map and leaves
\* the stored configuration as it was: it creates none and regenerates none.
C29_AnalyzeChangesNothing ==
    [][AnalyzeStep => modules' = modules /\ maps' = maps /\ configs' = configs]_vars

\* Analyze mode writes no module file and no module map.
C29_AnalyzeWritesNoModules ==
    [][AnalyzeStep => modules' = modules /\ maps' = maps /\ dist' = dist]_vars

-----------------------------------------------------------------------------
(* Completeness after a split.                                             *)

\* Every id of the map's module_order has its module file under the stored
\* configuration's prefix.
MapComplete ==
    /\ DocName \in DOMAIN configs
    /\ HasMapOrder(DocName)
    /\ \A k \in 1..Len(maps[DocName].module_order) :
          FileOf(configs[DocName].prefix, maps[DocName].module_order[k]) \in DOMAIN modules

\* The step on which a split completes.
SplitCompletes == lastSplit = <<>> /\ lastSplit' # <<>>

\* C24: after a split has completed, with a stored, an inferred or a
\* regenerated configuration and whether or not all sections were found,
\* every id of the written map's module_order has a module file under the
\* stored configuration's prefix, and a validation returns true; within a
\* split, the map is written after all the module files.
C24_SplitEstablishesCompleteness ==
    /\ [](SplitDone => MapComplete)
    /\ []((SplitDone /\ ValidatedOk) => validated[1].result)
    /\ [][/\ SplitCompletes =>
                /\ DocName \in DOMAIN maps'
                /\ maps'[DocName].module_order
                      = [i \in 1..Len(lastSplit'[1].config.document_outline) |->
                            lastSplit'[1].config.document_outline[i].id]
                /\ modules' = modules
                /\ \A i \in 1..Len(lastSplit'[1].module_writes) :
                      lastSplit'[1].module_writes[i].path \in DOMAIN modules
          /\ (modules' # modules) => (maps' = maps /\ lastSplit' = <<>>)]_vars

\* A validation has returned true right after a split that regenerated a
\* stale configuration and found all its sections, and right after one that
\* did not find a section of the stored configuration.
C24_Witness ==
    /\ SplitDone /\ ValidatedOk /\ validated[1].result
    /\ lastSplit[1].config_existed
    /\ Len(lastSplit[1].module_writes) >= 2
    /\ \/ lastSplit[1].created_config
       \/ \E i \in 1..Len(SplitOutline) : ~SectionFound(i)

-----------------------------------------------------------------------------
(* Two splits at once.                                                     *)

BothDone == DOMAIN splitters = Procs /\ \A p \in Procs : splitters[p].pc = "done"

\* The positions of the sections that split p wrote to the file `path`.
SectionsAt(p, path) ==
    {i \in 1..Len(splitters[p].config.document_outline) :
        FileOf(splitters[p].config.prefix, splitters[p].config.document_outline[i].id) = path}

\* Split p wrote the file, and the file holds what p wrote to it last.
HoldsWriteOf(p, path) ==
    /\ SectionsAt(p, path) # {}
    /\ LET last == CHOOSE i \in SectionsAt(p, path) : \A j \in SectionsAt(p, path) : j <= i
           section == splitters[p].config.document_outline[last]
       IN  modules[path] = JoinLines(SectionLines(splitters[p].lines, section.start_pattern,
                                                  section.end_pattern))

\* The map on disk is the one split p wrote.
MapWrittenBy(p) ==
    /\ HasMapOrder(DocName)
    /\ maps[DocName].document_name = DocName
    /\ maps[DocName].prefix = splitters[p].config.prefix
    /\ maps[DocName].module_order
          = [i \in 1..Len(splitters[p].config.document_outline) |->
                splitters[p].config.document_outline[i].id]

\* C30: when two splits of one configuration name have interleaved and both
\* are done, the map on disk is the map one of them wrote, and every id of its
\* module_order has a module file under the stored configuration's prefix
\* whose content that same split wrote.
C30_ConsistentWithOneSplit ==
    BothDone =>
        \E p \in Procs :
            /\ MapWrittenBy(p)
            /\ \A k \in 1..Len(maps[DocName].module_order) :
                  LET path == FileOf(configs[DocName].prefix, maps[DocName].module_order[k])
                  IN  path \in DOMAIN modules /\ HoldsWriteOf(p, path)

\* C30, amended: the map on disk is the map one of the two splits wrote, and
\* every id of its module_order has a module file under the prefix the map
\* records, whose content one of the two splits wrote, whole.
C30_EachArtifactFromOneSplit ==
    BothDone =>
        \E p \in Procs :
            /\ MapWrittenBy(p)
            /\ \A k \in 1..Len(maps[DocName].module_order) :
                  LET path == FileOf(maps[DocName].prefix, maps[DocName].module_order[k])
                  IN  /\ path \in DOMAIN modules
                      /\ \E q \in Procs : HoldsWriteOf(q, path)

\* Both splits are done, they worked on different documents, and a module
\* file of the map's order holds what the other split wrote.
C30_Witness ==
    /\ BothDone
    /\ splitters[1].lines # splitters[2].lines
    /\ \E p, q \in Procs :
          /\ p # q
          /\ MapWrittenBy(p) /\ ~MapWrittenBy(q)
          /\ \E k \in 1..Len(maps[DocName].module_order) :
                LET path == FileOf(maps[DocName].prefix, maps[DocName].module_order[k])
                IN  HoldsWriteOf(q, path) /\ ~HoldsWriteOf(p, path)

====
